---- MODULE Spec2Model ----
(***************************************************************************)
(* Transactional change-and-rollback engine of MacChanger:                 *)
(*   TransactionManager  (src/transaction_manager.py)                      *)
(*   MacAddressSpoofer   (src/mac_spoofer.py)                              *)
(*   MacValidator        (src/mac_validator.py), the parts the spoofer     *)
(*                       calls: normalize_mac and validate.                *)
(* Strings that the code inspects character by character (MAC addresses)   *)
(* are sequences of one-character strings.  Python objects of class        *)
(* Transaction live in a heap (txnObj); the log and every caller hold      *)
(* references (indices into the heap), as in Python.                       *)
(***************************************************************************)
EXTENDS Integers, Sequences, FiniteSets, TLC

\* ------------------------------------------------------------------ bounds
\* Transaction objects created in one run (the heap never shrinks).
MaxTxns == 2
\* The orchestrator's log is built with the default max_transactions (1000);
\* the model gives it a capacity from 1 to SpooferCapacity, small enough to be
\* reached.
SpooferCapacity == 2
\* Largest capacity a directly constructed TransactionManager is given.
MaxCapacity == 2
\* Callbacks registered on a directly constructed TransactionManager.
MaxCallbacks == 2
\* add_transaction calls on a directly constructed TransactionManager.
MaxRecords == 3
\* Platform handler calls that do not do what they are asked, in one run.
MaxFaults == 2

\* ------------------------------------------------------- MAC address text
HexUpper == {"0","1","2","3","4","5","6","7","8","9","A","B","C","D","E","F"}
HexLower == {"a","b","c","d","e","f"}

\* str.upper() on one character of the alphabet the model uses.
UpperChar(c) ==
    CASE c = "a" -> "A" [] c = "b" -> "B" [] c = "c" -> "C"
      [] c = "d" -> "D" [] c = "e" -> "E" [] c = "f" -> "F"
      [] c = "z" -> "Z" [] OTHER -> c

\* str.replace(ch, "")
RemoveChar(s, ch) == SelectSeq(s, LAMBDA c : c # ch)

\* ":".join(mac[i:i+2] for i in range(0, 12, 2)) for a 12-character mac
JoinPairs(m) == [i \in 1..17 |-> IF i % 3 = 0 THEN ":" ELSE m[i - (i \div 3)]]

\* MacValidator.normalize_mac
NormalizeMac(mac) ==
    LET noDots   == RemoveChar(RemoveChar(mac, "."), "-")
        upper    == [i \in 1..Len(noDots) |-> UpperChar(noDots[i])]
        noColons == RemoveChar(upper, ":")
    IN  IF Len(noColons) = 12 /\ \A i \in 1..12 : noColons[i] \in HexUpper
        THEN JoinPairs(noColons)
        ELSE noColons

\* MAC_PATTERN_COLON.match(mac)
MatchColon(mac) ==
    /\ Len(mac) = 17
    /\ \A i \in 1..17 : IF i % 3 = 0 THEN mac[i] = ":"
                                     ELSE mac[i] \in HexUpper \cup HexLower

\* MAC_PATTERN_DASH.match(mac)
MatchDash(mac) ==
    /\ Len(mac) = 17
    /\ \A i \in 1..17 : IF i % 3 = 0 THEN mac[i] = "-"
                                     ELSE mac[i] \in HexUpper \cup HexLower

\* MacValidator.is_valid_format
IsValidFormat(mac) ==
    LET m == NormalizeMac(mac) IN MatchColon(m) \/ MatchDash(m)

\* int(c, 16) % 2 for one hexadecimal digit
HexDigitOdd(c) == c \in {"1","3","5","7","9","B","D","F","b","d","f"}

\* MacValidator.is_unicast: bit 0 of the first octet is the low bit of its
\* second digit.
IsUnicast(mac) == ~ HexDigitOdd(NormalizeMac(mac)[2])

\* Python's None where a MAC string is expected.
None == <<"None">>

\* A human-readable message: the f-string's fixed text and the values it
\* interpolates.
Msg(text, detail, interface, a, b) ==
    [text |-> text, detail |-> detail, interface |-> interface, a |-> a, b |-> b]

\* MacValidator.validate(mac, must_be_unicast=True, must_have_vendor=False):
\* get_vendor never rejects, so the vendor step only decorates the message.
Validate(mac) ==
    LET m == NormalizeMac(mac)
    IN  IF ~ IsValidFormat(m)
        THEN [is_valid |-> FALSE, message |-> "Invalid MAC format"]
        ELSE IF ~ IsUnicast(m)
        THEN [is_valid |-> FALSE, message |-> "is multicast, not unicast"]
        ELSE [is_valid |-> TRUE, message |-> "Valid MAC address"]

\* ------------------------------------------------------------- the state
VARIABLES
    txnObj,                 \* heap of Transaction objects, indexed by reference
    transactions,           \* TransactionManager.transactions: references, oldest first
    max_transactions,       \* TransactionManager.max_transactions
    rollback_callbacks,     \* TransactionManager.rollback_callbacks: action -> callbacks
    auto_rollback_on_error, \* MacAddressSpoofer.auto_rollback_on_error
    value,                  \* the resource: the MAC each interface really has
    faithful,               \* every capability call so far behaved as documented
    faults,                 \* platform handler calls so far that were not "ok"
    lastChanged,            \* per interface, the transaction whose status changed last
    batch,                  \* the frame of a running spoof_multiple_interfaces call
    lastCall,               \* the call that returned last, with what it did (none while one runs)
    tasks,                  \* Scheduler.tasks: the ScheduledTask objects, in insertion order
    running,                \* Scheduler.running
    scheduler_thread,       \* Scheduler.scheduler_thread: the thread started last, if any
    threads,                \* the threads start() has spawned, each in _scheduler_loop
    now,                    \* datetime.now(), in hours
    loop_runs,              \* per task, the callback invocations made by scheduler loops
    entries                 \* MacHistory.entries

vars == <<txnObj, transactions, max_transactions, rollback_callbacks,
          auto_rollback_on_error, value, faithful, faults, lastChanged, batch, lastCall,
          tasks, running, scheduler_thread, threads, now, loop_runs, entries>>

\* The scheduler and the MAC history, which no operation of the orchestrator or
\* of its transaction log touches.
elsewhere == <<tasks, running, scheduler_thread, threads, now, loop_runs, entries>>

Interfaces == {"eth0", "eth1"}

\* MAC texts callers pass and interfaces start with.
MacA      == <<"0","2",":","0","0",":","0","0",":","0","0",":","0","0",":","0","A">>
MacB      == <<"0","2",":","0","0",":","0","0",":","0","0",":","0","0",":","0","B">>
MacALower == <<"0","2","-","0","0","-","0","0","-","0","0","-","0","0","-","0","a">>
MacMulti  == <<"0","1",":","0","0",":","0","0",":","0","0",":","0","0",":","0","C">>
MacE0     == <<"0","2",":","0","0",":","0","0",":","0","0",":","0","0",":","e","0">>
MacE1     == <<"0","2",":","0","0",":","0","0",":","0","0",":","0","0",":","e","1">>

RequestedMacs == {MacA, MacALower, MacMulti}
\* Two valid addresses, for changes stacked on one interface.
StackedMacs == {MacA, MacB}
InitialMac == [i \in Interfaces |-> IF i = "eth0" THEN MacE0 ELSE MacE1]

\* Every MAC text of the model, and normalize_mac and validate tabulated over
\* them (each entry is computed by the operator above, once).
MacTexts ==
    LET given == RequestedMacs \cup StackedMacs \cup {InitialMac[i] : i \in Interfaces}
    IN  given \cup {NormalizeMac(m) : m \in given}
normalize_mac == [m \in MacTexts |-> NormalizeMac(m)]
validate == [m \in MacTexts |-> Validate(m)]

\* What one call of the platform handler may do (the handler is an external
\* collaborator): "ok" does what is asked, "fail" reports failure and changes
\* nothing, "lie" reports success and changes nothing, "half" changes the
\* value and reports failure (LinuxHandler.set_mac_address when the interface
\* does not come back up), "raise" throws.
SetOutcomes == {"ok", "fail", "lie", "half", "raise"}
GetOutcomes == {"ok", "none", "raise"}
\* The outcomes drawn for the set call of the rollback callback, which turns
\* "raise" into the same False as "fail".
RollbackOutcomes == {"ok", "fail", "lie", "half", "raise"}

\* Transaction.__init__ through add_transaction: status starts "pending".
Transaction(action, interface, original_value, new_value, timestamp) ==
    [action |-> action, interface |-> interface,
     original_value |-> original_value, new_value |-> new_value,
     timestamp |-> timestamp, status |-> "pending"]

\* No transaction argument (Python None).
NoTxn == 0

\* ------------------------------------------------------- platform handler
\* One call of the platform handler, as recorded in the calls of a handler.
Call(kind, interface, mac_address, outcome, ret) ==
    [kind |-> kind, interface |-> interface, mac_address |-> mac_address,
     outcome |-> outcome, ret |-> ret]

\* PlatformHandler.get_mac_address as the orchestrator sees it.
GetMacAddress(st, interface, outcome) ==
    LET ret == IF outcome = "ok" THEN st.value[interface] ELSE None
    IN  [st  |-> [st EXCEPT !.calls = Append(@, Call("get", interface, None, outcome, ret)),
                            !.faithful = @ /\ outcome = "ok",
                            !.faults = IF outcome = "ok" THEN @ ELSE @ + 1],
         raised |-> outcome = "raise",
         ret |-> ret]

\* PlatformHandler.set_mac_address as the orchestrator sees it.
SetMacAddress(st, interface, mac_address, outcome) ==
    [st  |-> [st EXCEPT !.calls = Append(@, Call("set", interface, mac_address, outcome, None)),
                        !.faithful = @ /\ outcome \in {"ok", "fail"},
                        !.faults = IF outcome = "ok" THEN @ ELSE @ + 1,
                        !.value[interface] = IF outcome \in {"ok", "half"} THEN mac_address ELSE @],
     raised |-> outcome = "raise",
     ret |-> outcome \in {"ok", "lie"}]

\* ----------------------------------------------------- TransactionManager
\* A faulty variant of AddTransaction: the limit is tested with > instead of >=.
AddTransactionOffByOne(st, action, interface, original_value, new_value) ==
    LET kept == IF Len(st.transactions) > max_transactions
                THEN Tail(st.transactions)
                ELSE st.transactions
        ref  == Len(st.txnObj) + 1
        transaction == Transaction(action, interface, original_value, new_value, ref)
    IN  [st  |-> [st EXCEPT !.txnObj = Append(@, transaction),
                            !.transactions = Append(kept, ref)],
         txn |-> ref]

\* A faulty variant of AddTransaction: the transaction is inserted at the head of
\* the log.
AddTransactionAtHead(st, action, interface, original_value, new_value) ==
    LET kept == IF Len(st.transactions) >= max_transactions
                THEN Tail(st.transactions)
                ELSE st.transactions
        ref  == Len(st.txnObj) + 1
        transaction == Transaction(action, interface, original_value, new_value, ref)
    IN  [st  |-> [st EXCEPT !.txnObj = Append(@, transaction),
                            !.transactions = <<ref>> \o kept],
         txn |-> ref]

\* TransactionManager.add_transaction; .txn is the reference it returns.
AddTransaction(st, action, interface, original_value, new_value) ==
    LET kept == IF Len(st.transactions) >= max_transactions
                THEN Tail(st.transactions)          \* self.transactions.pop(0)
                ELSE st.transactions
        ref  == Len(st.txnObj) + 1
        transaction == Transaction(action, interface, original_value, new_value, ref)
    IN  [st  |-> [st EXCEPT !.txnObj = Append(@, transaction),
                            !.transactions = Append(kept, ref)],
         txn |-> ref]

\* TransactionManager.commit_transaction
CommitTransaction(st, transaction) ==
    [st EXCEPT !.txnObj[transaction].status = "committed",
               !.changes = Append(@, <<transaction, st.txnObj[transaction].status,
                                       "committed">>),
               !.lastChanged[st.txnObj[transaction].interface] = transaction]

\* A faulty variant of RollbackMacSpoof: the callback writes the new value back.
RollbackMacSpoofNewValue(st, txn, outcome) ==
    LET r == SetMacAddress(st, st.txnObj[txn].interface,
                           st.txnObj[txn].new_value, outcome)
    IN  [st |-> r.st, raised |-> FALSE, ret |-> (~ r.raised) /\ r.ret]

\* rollback_mac_spoof, the callback _setup_rollback_handlers registers: the
\* handler's exception is caught and reported as False.
RollbackMacSpoof(st, txn, outcome) ==
    LET r == SetMacAddress(st, st.txnObj[txn].interface,
                           st.txnObj[txn].original_value, outcome)
    IN  [st |-> r.st, raised |-> FALSE, ret |-> (~ r.raised) /\ r.ret]

\* What a callback did, as recorded in the invoked of a handler.
Returned(r) == IF r.raised THEN "raise" ELSE IF r.ret THEN "True" ELSE "False"

\* callback(transaction) for the callbacks the model registers; the invocation
\* is recorded as (callback, transaction, what it returned).
CallCallback(st, callback, txn, outcome) ==
    LET r == CASE callback = "rollback_mac_spoof" -> RollbackMacSpoof(st, txn, outcome)
               [] callback = "cb_true"  -> [st |-> st, raised |-> FALSE, ret |-> TRUE]
               [] callback = "cb_false" -> [st |-> st, raised |-> FALSE, ret |-> FALSE]
               [] callback = "cb_raise" -> [st |-> st, raised |-> TRUE,  ret |-> FALSE]
    IN  [r EXCEPT !.st.invoked = Append(@, <<callback, txn, Returned(r)>>)]

\* A faulty variant of RunCallbacks: every callback is invoked, also after one has
\* returned True.
RECURSIVE RunCallbacksAll(_, _, _, _, _)
RunCallbacksAll(st, callbacks, j, txn, outcome) ==
    IF j > Len(callbacks)
    THEN [st |-> st, ret |-> FALSE]
    ELSE LET r == CallCallback(st, callbacks[j], txn, outcome)
             rest == RunCallbacksAll(r.st, callbacks, j + 1, txn, outcome)
         IN  [st |-> rest.st, ret |-> ((~ r.raised) /\ r.ret) \/ rest.ret]

\* A faulty variant of RunCallbacks: a callback that raises ends the chain, the
\* callbacks after it are not tried.
RECURSIVE RunCallbacksStopAtRaise(_, _, _, _, _)
RunCallbacksStopAtRaise(st, callbacks, j, txn, outcome) ==
    IF j > Len(callbacks)
    THEN [st |-> st, ret |-> FALSE]
    ELSE LET r == CallCallback(st, callbacks[j], txn, outcome)
         IN  IF r.raised
             THEN [st |-> r.st, ret |-> FALSE]
             ELSE IF r.ret
             THEN [st |-> r.st, ret |-> TRUE]
             ELSE RunCallbacksStopAtRaise(r.st, callbacks, j + 1, txn, outcome)

\* The for loop of _execute_rollback from callbacks[j] on.
RECURSIVE RunCallbacks(_, _, _, _, _)
RunCallbacks(st, callbacks, j, txn, outcome) ==
    IF j > Len(callbacks)
    THEN [st |-> st, ret |-> FALSE]
    ELSE LET r == CallCallback(st, callbacks[j], txn, outcome)
         IN  IF (~ r.raised) /\ r.ret
             THEN [st |-> r.st, ret |-> TRUE]
             ELSE RunCallbacks(r.st, callbacks, j + 1, txn, outcome)

\* A faulty variant of ExecuteRollback: an action without callbacks counts as
\* rolled back.
ExecuteRollbackMissingOk(st, txn, outcome) ==
    LET action == st.txnObj[txn].action
    IN  IF action \notin DOMAIN rollback_callbacks
        THEN [st |-> st, ret |-> TRUE]
        ELSE RunCallbacks(st, rollback_callbacks[action], 1, txn, outcome)

\* TransactionManager._execute_rollback
ExecuteRollback(st, txn, outcome) ==
    LET action == st.txnObj[txn].action
    IN  IF action \notin DOMAIN rollback_callbacks
        THEN [st |-> st, ret |-> FALSE]
        ELSE RunCallbacks(st, rollback_callbacks[action], 1, txn, outcome)

\* The report rollback() starts from.
EmptyResults ==
    [success |-> TRUE, rolled_back_count |-> 0, failed_count |-> 0,
     failed_transactions |-> <<>>]

\* A faulty variant of RollbackOne: a transaction already rolled_back is not skipped.
RollbackOneNoSkip(st, results, txn, outcome) ==
    LET r == ExecuteRollback(st, txn, outcome)
    IN  IF r.ret
        THEN [st |-> [r.st EXCEPT !.txnObj[txn].status = "rolled_back",
                                  !.changes = Append(@,
                                      <<txn, st.txnObj[txn].status, "rolled_back">>),
                                  !.lastChanged[st.txnObj[txn].interface] = txn],
              results |-> [results EXCEPT !.rolled_back_count = @ + 1]]
        ELSE [st |-> r.st,
              results |-> [results EXCEPT
                  !.success = FALSE,
                  !.failed_count = @ + 1,
                  !.failed_transactions = Append(@,
                      [action         |-> st.txnObj[txn].action,
                       interface      |-> st.txnObj[txn].interface,
                       original_value |-> st.txnObj[txn].original_value,
                       new_value      |-> st.txnObj[txn].new_value])]]

\* A faulty variant of RollbackOne: a failure is counted but success stays True.
RollbackOneKeepsSuccess(st, results, txn, outcome) ==
    IF st.txnObj[txn].status = "rolled_back"
    THEN [st |-> st, results |-> results]
    ELSE LET r == ExecuteRollback(st, txn, outcome)
         IN  IF r.ret
             THEN [st |-> [r.st EXCEPT !.txnObj[txn].status = "rolled_back",
                                       !.changes = Append(@,
                                           <<txn, st.txnObj[txn].status, "rolled_back">>),
                                       !.lastChanged[st.txnObj[txn].interface] = txn],
                   results |-> [results EXCEPT !.rolled_back_count = @ + 1]]
             ELSE [st |-> r.st,
                   results |-> [results EXCEPT
                       !.failed_count = @ + 1,
                       !.failed_transactions = Append(@,
                           [action         |-> st.txnObj[txn].action,
                            interface      |-> st.txnObj[txn].interface,
                            original_value |-> st.txnObj[txn].original_value,
                            new_value      |-> st.txnObj[txn].new_value])]]

\* One iteration of the loop of rollback() for txn.
RollbackOne(st, results, txn, outcome) ==
    IF st.txnObj[txn].status = "rolled_back"
    THEN [st |-> st, results |-> results]
    ELSE LET r == ExecuteRollback(st, txn, outcome)
         IN  IF r.ret
             THEN [st |-> [r.st EXCEPT !.txnObj[txn].status = "rolled_back",
                                       !.changes = Append(@,
                                           <<txn, st.txnObj[txn].status, "rolled_back">>),
                                       !.lastChanged[st.txnObj[txn].interface] = txn],
                   results |-> [results EXCEPT !.rolled_back_count = @ + 1]]
             ELSE [st |-> r.st,
                   results |-> [results EXCEPT
                       !.success = FALSE,
                       !.failed_count = @ + 1,
                       !.failed_transactions = Append(@,
                           [action         |-> st.txnObj[txn].action,
                            interface      |-> st.txnObj[txn].interface,
                            original_value |-> st.txnObj[txn].original_value,
                            new_value      |-> st.txnObj[txn].new_value])]]

\* A faulty variant of RollbackLoop: the transactions are taken oldest first.
RECURSIVE RollbackLoopForward(_, _, _, _, _)
RollbackLoopForward(st, results, transactions_to_rollback, k, outcomes) ==
    IF k = 0
    THEN [st |-> st, results |-> results]
    ELSE LET txn == transactions_to_rollback[Len(transactions_to_rollback) - k + 1]
             r   == RollbackOne(st, results, txn, outcomes[txn])
         IN  RollbackLoopForward(r.st, r.results, transactions_to_rollback, k - 1, outcomes)

\* A faulty variant of RollbackLoop: the loop ends at the first transaction whose
\* rollback fails.
RECURSIVE RollbackLoopStopAtFailure(_, _, _, _, _)
RollbackLoopStopAtFailure(st, results, transactions_to_rollback, k, outcomes) ==
    IF k = 0 \/ ~ results.success
    THEN [st |-> st, results |-> results]
    ELSE LET txn == transactions_to_rollback[k]
             r   == RollbackOne(st, results, txn, outcomes[txn])
         IN  RollbackLoopStopAtFailure(r.st, r.results, transactions_to_rollback,
                                       k - 1, outcomes)

\* for txn in reversed(transactions_to_rollback), from position k downwards.
RECURSIVE RollbackLoop(_, _, _, _, _)
RollbackLoop(st, results, transactions_to_rollback, k, outcomes) ==
    IF k = 0
    THEN [st |-> st, results |-> results]
    ELSE LET txn == transactions_to_rollback[k]
             r   == RollbackOne(st, results, txn, outcomes[txn])
         IN  RollbackLoop(r.st, r.results, transactions_to_rollback, k - 1, outcomes)

\* A faulty variant of TransactionsToRollback: without argument every transaction of
\* the log that is not rolled_back is selected, the pending ones included.
TransactionsToRollbackNotRolledBack(st, transaction) ==
    IF transaction # NoTxn
    THEN <<transaction>>
    ELSE SelectSeq(st.transactions, LAMBDA t : st.txnObj[t].status # "rolled_back")

\* What rollback(transaction) selects: the transaction given, or every
\* committed one of the log.
TransactionsToRollback(st, transaction) ==
    IF transaction # NoTxn
    THEN <<transaction>>
    ELSE SelectSeq(st.transactions, LAMBDA t : st.txnObj[t].status = "committed")

\* TransactionManager.rollback; outcomes[t] is what the platform handler does
\* when a callback for t calls it.
Rollback(st, transaction, outcomes) ==
    LET todo == TransactionsToRollback(st, transaction)
    IN  RollbackLoop(st, EmptyResults, todo, Len(todo), outcomes)

\* ------------------------------------------------------ MacAddressSpoofer
\* Python truthiness of an Optional[str]
Truthy(mac) == mac # None /\ mac # <<>>

\* A faulty variant of AutoRollback: rollback() is called without the transaction,
\* which rolls back every committed transaction of the log.
AutoRollbackAll(st, txn, outcome) ==
    IF auto_rollback_on_error
    THEN Rollback(st, NoTxn, [t \in 1..Len(st.txnObj) |-> outcome]).st
    ELSE st

\* The rollback(txn) calls of spoof_mac_address: made only when
\* auto_rollback_on_error is set; the report is dropped.
AutoRollback(st, txn, outcome) ==
    IF auto_rollback_on_error
    THEN Rollback(st, txn, [t \in {txn} |-> outcome]).st
    ELSE st

\* A faulty variant of SpoofException: the branch raises again after the rollback,
\* so the caller receives the exception instead of a pair.
SpoofExceptionReraised(st, interface, txn, outcome) ==
    [st  |-> AutoRollback(st, txn, outcome),
     ret |-> [exception |-> Msg("Exception during MAC spoof", "", interface, None, None)]]

\* The inner except branch of spoof_mac_address.
SpoofException(st, interface, txn, outcome) ==
    [st  |-> AutoRollback(st, txn, outcome),
     ret |-> [success |-> FALSE,
              message |-> Msg("Exception during MAC spoof", "", interface, None, None)]]

\* A faulty variant of VerifyAndCommit: the verification failure branch does not
\* return, so the transaction is committed after its rollback.
VerifyAndCommitFallThrough(st, interface, txn, current_mac, new_mac, orc) ==
    LET g == GetMacAddress(st, interface, orc.g2)
        verify_mac == IF Truthy(g.ret) THEN normalize_mac[g.ret] ELSE None
    IN  IF g.raised
        THEN SpoofException(g.st, interface, txn, orc.r)
        ELSE [st  |-> CommitTransaction(
                          IF verify_mac # new_mac
                          THEN AutoRollback(g.st, txn, orc.r) ELSE g.st, txn),
              ret |-> [success |-> TRUE,
                       message |-> Msg("Successfully spoofed MAC", "", interface,
                                       current_mac, new_mac)]]

\* A faulty variant of VerifyAndCommit: the success reported by set_mac_address is
\* trusted; the value is re-read but not compared.
VerifyAndCommitTrusting(st, interface, txn, current_mac, new_mac, orc) ==
    LET g == GetMacAddress(st, interface, orc.g2)
    IN  IF g.raised
        THEN SpoofException(g.st, interface, txn, orc.r)
        ELSE [st  |-> CommitTransaction(g.st, txn),
              ret |-> [success |-> TRUE,
                       message |-> Msg("Successfully spoofed MAC", "", interface,
                                       current_mac, new_mac)]]

\* spoof_mac_address from the verification step on (set_mac_address has
\* returned True).
VerifyAndCommit(st, interface, txn, current_mac, new_mac, orc) ==
    LET g == GetMacAddress(st, interface, orc.g2)
        verify_mac == IF Truthy(g.ret) THEN normalize_mac[g.ret] ELSE None
    IN  IF g.raised
        THEN SpoofException(g.st, interface, txn, orc.r)
        ELSE IF verify_mac # new_mac
        THEN [st  |-> AutoRollback(g.st, txn, orc.r),
              ret |-> [success |-> FALSE,
                       message |-> Msg("MAC verification failed", "", interface,
                                       new_mac, verify_mac)]]
        ELSE [st  |-> CommitTransaction(g.st, txn),
              ret |-> [success |-> TRUE,
                       message |-> Msg("Successfully spoofed MAC", "", interface,
                                       current_mac, new_mac)]]

\* A faulty variant of RecordAndApply: the value returned by set_mac_address is not
\* tested.
RecordAndApplyIgnoreSet(st, interface, current_mac, new_mac, orc) ==
    LET a == AddTransaction(st, "spoof_mac", interface, current_mac, new_mac)
        s == SetMacAddress(a.st, interface, new_mac, orc.s)
    IN  IF s.raised
        THEN SpoofException(s.st, interface, a.txn, orc.r)
        ELSE VerifyAndCommit(s.st, interface, a.txn, current_mac, new_mac, orc)

\* A faulty variant of RecordAndApply: set_mac_address is called before the
\* transaction is added, so nothing is recorded when it raises.
RecordAndApplySetFirst(st, interface, current_mac, new_mac, orc) ==
    LET s == SetMacAddress(st, interface, new_mac, orc.s)
        a == AddTransaction(s.st, "spoof_mac", interface, current_mac, new_mac)
    IN  IF s.raised
        THEN [st  |-> s.st,
              ret |-> [success |-> FALSE,
                       message |-> Msg("Exception during MAC spoof", "", interface,
                                       None, None)]]
        ELSE IF ~ s.ret
        THEN [st  |-> AutoRollback(a.st, a.txn, orc.r),
              ret |-> [success |-> FALSE,
                       message |-> Msg("Platform handler failed to set MAC", "",
                                       interface, None, None)]]
        ELSE VerifyAndCommit(a.st, interface, a.txn, current_mac, new_mac, orc)

\* spoof_mac_address from add_transaction on (the value differs).
RecordAndApply(st, interface, current_mac, new_mac, orc) ==
    LET a == AddTransaction(st, "spoof_mac", interface, current_mac, new_mac)
        s == SetMacAddress(a.st, interface, new_mac, orc.s)
    IN  IF s.raised
        THEN SpoofException(s.st, interface, a.txn, orc.r)
        ELSE IF ~ s.ret
        THEN [st  |-> AutoRollback(s.st, a.txn, orc.r),
              ret |-> [success |-> FALSE,
                       message |-> Msg("Platform handler failed to set MAC", "",
                                       interface, None, None)]]
        ELSE VerifyAndCommit(s.st, interface, a.txn, current_mac, new_mac, orc)

\* spoof_mac_address called with an address that is not a str (None):
\* normalize_mac raises AttributeError at mac.replace, in validate when the
\* call is not forced and at line 144 when it is; the outer except turns it
\* into a pair.
SpoofNotText(st, interface, force, orc) ==
    LET g == GetMacAddress(st, interface, orc.g1)
        unexpected == [success |-> FALSE,
                       message |-> Msg("Unexpected error in spoof_mac_address", "",
                                       "", None, None)]
    IN  IF ~ force
        THEN [st |-> st, ret |-> unexpected]
        ELSE IF g.raised
        THEN [st |-> g.st, ret |-> unexpected]
        ELSE IF ~ Truthy(g.ret)
        THEN [st  |-> g.st,
              ret |-> [success |-> FALSE,
                       message |-> Msg("Could not retrieve current MAC", "",
                                       interface, None, None)]]
        ELSE [st |-> g.st, ret |-> unexpected]

\* A faulty variant of SpoofMacAddress: the short-circuit compares the texts as given,
\* not their normal forms.
SpoofMacAddressRawCompare(st, interface, mac_address, force, orc) ==
    IF mac_address \notin MacTexts
    THEN SpoofNotText(st, interface, force, orc)
    ELSE LET v == validate[mac_address]
             g == GetMacAddress(st, interface, orc.g1)
             current_mac == normalize_mac[g.ret]
             new_mac     == normalize_mac[mac_address]
        IN  IF (~ force) /\ ~ v.is_valid
            THEN [st  |-> st,
                  ret |-> [success |-> FALSE,
                           message |-> Msg("Invalid MAC", v.message, "",
                                           normalize_mac[mac_address], None)]]
            ELSE IF g.raised
            THEN [st  |-> g.st,
                  ret |-> [success |-> FALSE,
                           message |-> Msg("Unexpected error in spoof_mac_address", "",
                                           "", None, None)]]
            ELSE IF ~ Truthy(g.ret)
            THEN [st  |-> g.st,
                  ret |-> [success |-> FALSE,
                           message |-> Msg("Could not retrieve current MAC", "",
                                           interface, None, None)]]
            ELSE IF g.ret = mac_address
            THEN [st  |-> g.st,
                  ret |-> [success |-> TRUE,
                           message |-> Msg("already has MAC", "", interface, new_mac, None)]]
            ELSE RecordAndApply(g.st, interface, current_mac, new_mac, orc)

\* A faulty variant of SpoofMacAddress: the snapshot is read before the address is
\* validated.
SpoofMacAddressSnapshotFirst(st, interface, mac_address, force, orc) ==
    IF mac_address \notin MacTexts
    THEN SpoofNotText(st, interface, force, orc)
    ELSE LET v == validate[mac_address]
             g == GetMacAddress(st, interface, orc.g1)
             current_mac == normalize_mac[g.ret]
             new_mac     == normalize_mac[mac_address]
        IN  IF g.raised
            THEN [st  |-> g.st,
                  ret |-> [success |-> FALSE,
                           message |-> Msg("Unexpected error in spoof_mac_address", "",
                                           "", None, None)]]
            ELSE IF ~ Truthy(g.ret)
            THEN [st  |-> g.st,
                  ret |-> [success |-> FALSE,
                           message |-> Msg("Could not retrieve current MAC", "",
                                           interface, None, None)]]
            ELSE IF (~ force) /\ ~ v.is_valid
            THEN [st  |-> g.st,
                  ret |-> [success |-> FALSE,
                           message |-> Msg("Invalid MAC", v.message, "",
                                           normalize_mac[mac_address], None)]]
            ELSE IF current_mac = new_mac
            THEN [st  |-> g.st,
                  ret |-> [success |-> TRUE,
                           message |-> Msg("already has MAC", "", interface, new_mac, None)]]
            ELSE RecordAndApply(g.st, interface, current_mac, new_mac, orc)

\* A faulty variant of SpoofMacAddress: the transaction is added before the snapshot
\* is tested.
SpoofMacAddressRecordFirst(st, interface, mac_address, force, orc) ==
    IF mac_address \notin MacTexts
    THEN SpoofNotText(st, interface, force, orc)
    ELSE LET v == validate[mac_address]
             g == GetMacAddress(st, interface, orc.g1)
             current_mac == normalize_mac[g.ret]
             new_mac     == normalize_mac[mac_address]
        IN  IF (~ force) /\ ~ v.is_valid
            THEN [st  |-> st,
                  ret |-> [success |-> FALSE,
                           message |-> Msg("Invalid MAC", v.message, "",
                                           normalize_mac[mac_address], None)]]
            ELSE IF g.raised
            THEN [st  |-> g.st,
                  ret |-> [success |-> FALSE,
                           message |-> Msg("Unexpected error in spoof_mac_address", "",
                                           "", None, None)]]
            ELSE IF ~ Truthy(g.ret)
            THEN [st  |-> AddTransaction(g.st, "spoof_mac", interface, None, new_mac).st,
                  ret |-> [success |-> FALSE,
                           message |-> Msg("Could not retrieve current MAC", "",
                                           interface, None, None)]]
            ELSE IF current_mac = new_mac
            THEN [st  |-> g.st,
                  ret |-> [success |-> TRUE,
                           message |-> Msg("already has MAC", "", interface, new_mac, None)]]
            ELSE RecordAndApply(g.st, interface, current_mac, new_mac, orc)

\* MacAddressSpoofer.spoof_mac_address.  orc gives what the platform handler
\* does at each of its calls: g1 the snapshot read, s the set, g2 the
\* verifying read, r the set made by the rollback callback.
SpoofMacAddress(st, interface, mac_address, force, orc) ==
    IF mac_address \notin MacTexts
    THEN SpoofNotText(st, interface, force, orc)
    ELSE LET v == validate[mac_address]
             g == GetMacAddress(st, interface, orc.g1)
             current_mac == normalize_mac[g.ret]
             new_mac     == normalize_mac[mac_address]
        IN  IF (~ force) /\ ~ v.is_valid
            THEN [st  |-> st,
                  ret |-> [success |-> FALSE,
                           message |-> Msg("Invalid MAC", v.message, "",
                                           normalize_mac[mac_address], None)]]
            ELSE IF g.raised
            THEN [st  |-> g.st,
                  ret |-> [success |-> FALSE,
                           message |-> Msg("Unexpected error in spoof_mac_address", "",
                                           "", None, None)]]
            ELSE IF ~ Truthy(g.ret)
            THEN [st  |-> g.st,
                  ret |-> [success |-> FALSE,
                           message |-> Msg("Could not retrieve current MAC", "",
                                           interface, None, None)]]
            ELSE IF current_mac = new_mac
            THEN [st  |-> g.st,
                  ret |-> [success |-> TRUE,
                           message |-> Msg("already has MAC", "", interface, new_mac, None)]]
            ELSE RecordAndApply(g.st, interface, current_mac, new_mac, orc)

\* One oracle for each distinguishable run of spoof_mac_address: the outcome
\* of a call that is never made is fixed to "ok".
Oracles ==
    {o \in [g1 : GetOutcomes, s : SetOutcomes, g2 : GetOutcomes, r : RollbackOutcomes] :
        /\ o.g1 # "ok" => (o.s = "ok" /\ o.g2 = "ok" /\ o.r = "ok")
        /\ o.s \in {"fail", "half", "raise"} => o.g2 = "ok"
        /\ (o.s = "ok" /\ o.g2 = "ok") => o.r = "ok"}

\* ------------------------------------------------- ordered dict (results)
DictKeys(d) == [i \in 1..Len(d) |-> d[i].key]
DictHas(d, k) == \E i \in 1..Len(d) : d[i].key = k
DictGet(d, k) == d[CHOOSE i \in 1..Len(d) : d[i].key = k].val
\* d[k] = v: an existing key keeps its position, a new key goes last.
DictSet(d, k, v) ==
    IF DictHas(d, k)
    THEN [i \in 1..Len(d) |-> IF d[i].key = k THEN [key |-> k, val |-> v] ELSE d[i]]
    ELSE Append(d, [key |-> k, val |-> v])

\* for k in keys: d[k] = v
RECURSIVE DictSetAll(_, _, _)
DictSetAll(d, keys, v) ==
    IF keys = <<>> THEN d
    ELSE DictSetAll(DictSet(d, Head(keys), v), Tail(keys), v)

\* ---------------------------------------------------------- the scheduler
\* Time is counted in hours from the construction of the scheduler. A field
\* that holds None where the code has a time holds NoTime. max_runs and
\* custom_interval_seconds are only ever tested for truth before they are
\* used (scheduler.py:60, 74), so None and 0 are one value for each.
NoTime == -1
NoLimit == 0
NoInterval == 0
NoThread == 0

\* The clock stops at MaxTime; a scheduler loop invokes the callback of one
\* task at most MaxLoopRuns times, a caller runs a task by hand while its
\* run_count is below MaxRunCount, and start() spawns at most MaxThreads
\* threads.
MaxTime == 1
MaxLoopRuns == 2
MaxRunCount == 1
MaxThreads == 2

TaskNames == {"t1", "t2"}

\* ScheduledTask(name, interface, action, frequency, ...): the fields the
\* scheduler reads and writes
ScheduledTask(name, frequency, custom_interval_seconds, max_runs) ==
    [name |-> name, frequency |-> frequency, enabled |-> TRUE,
     custom_interval_seconds |-> custom_interval_seconds,
     last_run |-> NoTime, next_run |-> NoTime,
     max_runs |-> max_runs, run_count |-> 0]

\* The timedelta of a fixed frequency, in hours.
Delta(frequency) ==
    CASE frequency = "hourly"  -> 1
      [] frequency = "daily"   -> 24
      [] frequency = "weekly"  -> 168
      [] frequency = "monthly" -> 720

\* ScheduledTask.is_due()
IsDue(task) ==
    IF task.next_run = NoTime
    THEN task.enabled
    ELSE now >= task.next_run /\ task.enabled

\* ScheduledTask.update_next_run()
UpdateNextRun(task) ==
    IF task.max_runs # NoLimit /\ task.run_count >= task.max_runs
    THEN [task EXCEPT !.next_run = NoTime]
    ELSE IF task.frequency = "once"
    THEN [task EXCEPT !.next_run = NoTime]
    ELSE IF task.frequency \in {"hourly", "daily", "weekly", "monthly"}
    THEN [task EXCEPT !.next_run = now + Delta(task.frequency)]
    ELSE IF task.frequency = "custom" /\ task.custom_interval_seconds # NoInterval
    THEN [task EXCEPT !.next_run = now + task.custom_interval_seconds]
    ELSE task

\* ScheduledTask.record_execution()
RecordExecution(task) ==
    UpdateNextRun([task EXCEPT !.last_run = now, !.run_count = task.run_count + 1])

\* Scheduler.get_task(name): the place of the task in tasks, 0 for None
GetTask(name) ==
    IF \E k \in 1..Len(tasks) : tasks[k].name = name
    THEN CHOOSE k \in 1..Len(tasks) : tasks[k].name = name
    ELSE 0

\* Scheduler.get_due_tasks(), as the names of the tasks
GetDueTasks ==
    LET due == SelectSeq(tasks, IsDue)
    IN  [k \in 1..Len(due) |-> due[k].name]

\* Scheduler.__init__ with an empty schedule directory and a callback
SchedulerInit ==
    /\ tasks = <<>>
    /\ running = FALSE
    /\ scheduler_thread = NoThread
    /\ threads = <<>>
    /\ now = 0
    /\ loop_runs = [n \in TaskNames |-> 0]

\* MacHistory.__init__ with an empty history directory
HistoryInit == entries = <<>>

\* ------------------------------------------------------------ transitions
\* The state a handler starts from, with empty records of what it does: the
\* callbacks it invokes (callback, transaction), its calls of the platform
\* handler, and the status changes it makes (transaction, from, to).
Start ==
    [txnObj |-> txnObj, transactions |-> transactions, value |-> value,
     faithful |-> faithful, faults |-> faults, lastChanged |-> lastChanged,
     invoked |-> <<>>, calls |-> <<>>, changes |-> <<>>]

\* The state a handler leaves.
Store(st) ==
    /\ txnObj' = st.txnObj
    /\ transactions' = st.transactions
    /\ value' = st.value
    /\ faithful' = st.faithful
    /\ faults' = st.faults
    /\ faults' <= MaxFaults
    /\ lastChanged' = st.lastChanged

NoBatch == [pc |-> "idle"]
Idle == batch.pc = "idle"

\* The reference of the transaction a call recorded, if it recorded one.
Recorded(before, after) ==
    IF Len(after.txnObj) > Len(before.txnObj) THEN Len(after.txnObj) ELSE NoTxn

\* MacAddressSpoofer.__init__ (auto_rollback_on_error is the caller's choice)
Init ==
    /\ txnObj = <<>>
    /\ transactions = <<>>
    /\ max_transactions \in 1..SpooferCapacity
    /\ rollback_callbacks = ("spoof_mac" :> <<"rollback_mac_spoof">>)
    /\ auto_rollback_on_error \in BOOLEAN
    /\ value = InitialMac
    /\ faithful = TRUE
    /\ faults = 0
    /\ lastChanged = [i \in Interfaces |-> NoTxn]
    /\ batch = NoBatch
    /\ lastCall = [op |-> "init"]
    /\ SchedulerInit
    /\ HistoryInit

\* A caller's spoof_mac_address(interface, mac_address, force)
ApplyChange(interface, mac_address, force, orc) ==
    /\ Idle
    /\ Len(txnObj) < MaxTxns
    /\ \E r \in {SpoofMacAddress(Start, interface, mac_address, force, orc)} :
           /\ Store(r.st)
           /\ lastCall' = [op |-> "spoof_mac_address", interface |-> interface,
                           mac_address |-> mac_address, force |-> force,
                           ret |-> r.ret, txn |-> Recorded(Start, r.st),
                           invoked |-> r.st.invoked, calls |-> r.st.calls,
                           changes |-> r.st.changes]
    /\ UNCHANGED elsewhere
    /\ UNCHANGED <<max_transactions, rollback_callbacks, auto_rollback_on_error, batch>>

\* The committed transactions of the log, oldest first.
Committed == SelectSeq(transactions, LAMBDA t : txnObj[t].status = "committed")
Range(f) == {f[i] : i \in DOMAIN f}

\* A faulty variant of RollbackAll: every committed transaction ever recorded is
\* rolled back, whether the log still holds it or not.
RollbackAllEverRecorded(outcomes) ==
    /\ Idle
    /\ \E todo \in {SelectSeq([k \in 1..Len(txnObj) |-> k],
                                LAMBDA t : txnObj[t].status = "committed")} :
       \E r \in {RollbackLoop(Start, EmptyResults, todo, Len(todo),
                               [t \in 1..Len(txnObj) |->
                                   IF t \in DOMAIN outcomes THEN outcomes[t] ELSE "ok"])} :
           /\ Store(r.st)
           /\ lastCall' = [op |-> "rollback_all_changes", results |-> r.results,
                           todo |-> todo,
                           invoked |-> r.st.invoked, calls |-> r.st.calls,
                           changes |-> r.st.changes]
    /\ UNCHANGED elsewhere
    /\ UNCHANGED <<max_transactions, rollback_callbacks, auto_rollback_on_error, batch>>

\* A caller's rollback_all_changes()
RollbackAll(outcomes) ==
    /\ Idle
    /\ \E r \in {Rollback(Start, NoTxn, outcomes)} :
           /\ Store(r.st)
           /\ lastCall' = [op |-> "rollback_all_changes", results |-> r.results,
                           todo |-> Committed,
                           invoked |-> r.st.invoked, calls |-> r.st.calls,
                           changes |-> r.st.changes]
    /\ UNCHANGED elsewhere
    /\ UNCHANGED <<max_transactions, rollback_callbacks, auto_rollback_on_error, batch>>

\* Entry of spoof_multiple_interfaces(mappings, rollback_on_partial_failure):
\* mappings is a dict, here the sequence of its items.
BatchBegin(mappings, rollback_on_partial_failure) ==
    /\ Idle
    /\ Len(txnObj) + Len(mappings) <= MaxTxns
    /\ batch' = [pc |-> "loop", mappings |-> mappings,
                 rollback_on_partial_failure |-> rollback_on_partial_failure,
                 i |-> 1, results |-> <<>>, own |-> <<>>,
                 rollback_result |-> EmptyResults, rolled |-> <<>>,
                 before |-> value, invoked |-> <<>>, calls |-> <<>>, changes |-> <<>>]
    /\ lastCall' = [op |-> "running"]
    /\ UNCHANGED elsewhere
    /\ UNCHANGED <<txnObj, transactions, max_transactions, rollback_callbacks,
                   auto_rollback_on_error, value, faithful, faults, lastChanged>>

\* A faulty variant of BatchApply: the loop goes on to the next interface after a
\* failure.
BatchApplyNoBreak(orc) ==
    /\ batch.pc = "loop"
    /\ batch.i <= Len(batch.mappings)
    /\ \E interface \in {batch.mappings[batch.i][1]} :
       \E r \in {SpoofMacAddress(Start, interface, batch.mappings[batch.i][2], FALSE, orc)} :
           /\ Store(r.st)
           /\ batch' = [batch EXCEPT
                  !.results = DictSet(@, interface, r.ret),
                  !.own = Append(@, [interface |-> interface, ret |-> r.ret,
                                     txn |-> Recorded(Start, r.st)]),
                  !.invoked = @ \o r.st.invoked,
                  !.calls = @ \o r.st.calls,
                  !.changes = @ \o r.st.changes,
                  !.i = @ + 1]
    /\ UNCHANGED elsewhere
    /\ UNCHANGED <<max_transactions, rollback_callbacks, auto_rollback_on_error, lastCall>>

\* A faulty variant of BatchApply: a failure leaves the loop for the rollback
\* whether rollback_on_partial_failure is set or not.
BatchApplyAlwaysAbort(orc) ==
    /\ batch.pc = "loop"
    /\ batch.i <= Len(batch.mappings)
    /\ \E interface \in {batch.mappings[batch.i][1]} :
       \E r \in {SpoofMacAddress(Start, interface, batch.mappings[batch.i][2], FALSE, orc)} :
           /\ Store(r.st)
           /\ batch' = [batch EXCEPT
                  !.results = DictSet(@, interface, r.ret),
                  !.own = Append(@, [interface |-> interface, ret |-> r.ret,
                                     txn |-> Recorded(Start, r.st)]),
                  !.invoked = @ \o r.st.invoked,
                  !.calls = @ \o r.st.calls,
                  !.changes = @ \o r.st.changes,
                  !.i = IF ~ r.ret.success THEN @ ELSE @ + 1,
                  !.pc = IF ~ r.ret.success THEN "abort" ELSE "loop"]
    /\ UNCHANGED elsewhere
    /\ UNCHANGED <<max_transactions, rollback_callbacks, auto_rollback_on_error, lastCall>>

\* One pass of the for loop up to the test of line 236.
BatchApply(orc) ==
    /\ batch.pc = "loop"
    /\ batch.i <= Len(batch.mappings)
    /\ \E interface \in {batch.mappings[batch.i][1]} :
       \E r \in {SpoofMacAddress(Start, interface, batch.mappings[batch.i][2], FALSE, orc)} :
           /\ Store(r.st)
           /\ batch' = [batch EXCEPT
                  !.results = DictSet(@, interface, r.ret),
                  !.own = Append(@, [interface |-> interface, ret |-> r.ret,
                                     txn |-> Recorded(Start, r.st)]),
                  !.invoked = @ \o r.st.invoked,
                  !.calls = @ \o r.st.calls,
                  !.changes = @ \o r.st.changes,
                  !.i = IF (~ r.ret.success) /\ batch.rollback_on_partial_failure
                        THEN @ ELSE @ + 1,
                  !.pc = IF (~ r.ret.success) /\ batch.rollback_on_partial_failure
                         THEN "abort" ELSE "loop"]
    /\ UNCHANGED elsewhere
    /\ UNCHANGED <<max_transactions, rollback_callbacks, auto_rollback_on_error, lastCall>>

\* "Cancelled due to partial failure"
Cancelled ==
    [success |-> FALSE,
     message |-> Msg("Cancelled due to partial failure", "", "", None, None)]

\* list(results.keys())[results[interface] != (success, message):]
RemainingInterfaces(results, interface, ret) ==
    LET keys  == DictKeys(results)
        start == IF DictGet(results, interface) # ret THEN 1 ELSE 0
    IN  SubSeq(keys, start + 1, Len(keys))

\* A faulty variant of BatchAbort: the results are marked but nothing is rolled
\* back.
BatchAbortNoRollback(outcomes) ==
    /\ batch.pc = "abort"
    /\ Store(Start)
    /\ batch' = [batch EXCEPT
           !.results = DictSetAll(@,
               RemainingInterfaces(@, batch.mappings[batch.i][1],
                                   batch.own[Len(batch.own)].ret),
               Cancelled),
           !.rolled = Committed,
           !.pc = "return"]
    /\ UNCHANGED elsewhere
    /\ UNCHANGED <<max_transactions, rollback_callbacks, auto_rollback_on_error, lastCall>>

\* A faulty variant of BatchAbort: only the transactions of the running batch are
\* rolled back.
BatchAbortOwnOnly(outcomes) ==
    /\ batch.pc = "abort"
    /\ \E todo \in {SelectSeq(Committed,
                       LAMBDA t : \E k \in 1..Len(batch.own) : batch.own[k].txn = t)} :
       \E r \in {RollbackLoop(Start, EmptyResults, todo, Len(todo), outcomes)} :
           /\ Store(r.st)
           /\ batch' = [batch EXCEPT
                  !.results = DictSetAll(@,
                      RemainingInterfaces(@, batch.mappings[batch.i][1],
                                          batch.own[Len(batch.own)].ret),
                      Cancelled),
                  !.rollback_result = r.results,
                  !.rolled = todo,
                  !.invoked = @ \o r.st.invoked,
                  !.calls = @ \o r.st.calls,
                  !.changes = @ \o r.st.changes,
                  !.pc = "return"]
    /\ UNCHANGED elsewhere
    /\ UNCHANGED <<max_transactions, rollback_callbacks, auto_rollback_on_error, lastCall>>

\* The body of "if not success and rollback_on_partial_failure" up to break.
BatchAbort(outcomes) ==
    /\ batch.pc = "abort"
    /\ \E r \in {Rollback(Start, NoTxn, outcomes)} :
           /\ Store(r.st)
           /\ batch' = [batch EXCEPT
                  !.results = DictSetAll(@,
                      RemainingInterfaces(@, batch.mappings[batch.i][1],
                                          batch.own[Len(batch.own)].ret),
                      Cancelled),
                  !.rollback_result = r.results,
                  !.rolled = Committed,
                  !.invoked = @ \o r.st.invoked,
                  !.calls = @ \o r.st.calls,
                  !.changes = @ \o r.st.changes,
                  !.pc = "return"]
    /\ UNCHANGED elsewhere
    /\ UNCHANGED <<max_transactions, rollback_callbacks, auto_rollback_on_error, lastCall>>

\* return results
BatchReturn ==
    /\ \/ batch.pc = "return"
       \/ batch.pc = "loop" /\ batch.i > Len(batch.mappings)
    /\ lastCall' = [op |-> "spoof_multiple_interfaces", mappings |-> batch.mappings,
                    rollback_on_partial_failure |-> batch.rollback_on_partial_failure,
                    ret |-> batch.results, own |-> batch.own,
                    aborted |-> batch.pc = "return",
                    rollback_result |-> batch.rollback_result, rolled |-> batch.rolled,
                    before |-> batch.before,
                    invoked |-> batch.invoked, calls |-> batch.calls,
                    changes |-> batch.changes]
    /\ batch' = NoBatch
    /\ UNCHANGED elsewhere
    /\ UNCHANGED <<txnObj, transactions, max_transactions, rollback_callbacks,
                   auto_rollback_on_error, value, faithful, faults, lastChanged>>

\* The dicts a caller may pass: distinct interfaces in any order.
BatchMacs == {MacA, MacMulti}
Mappings ==
    {<<>>}
    \cup {<<<<i, m>>>> : i \in Interfaces, m \in BatchMacs}
    \cup {<<<<p[1], m>>, <<p[2], n>>>> :
            p \in {q \in Interfaces \X Interfaces : q[1] # q[2]},
            m \in BatchMacs, n \in BatchMacs}

Next ==
    \/ \E i \in Interfaces, m \in RequestedMacs \cup {None}, orc \in Oracles :
       \E f \in (IF m \in MacTexts /\ validate[m].is_valid THEN {FALSE} ELSE BOOLEAN) :
          ApplyChange(i, m, f, orc)
    \/ \E outcomes \in [Range(Committed) -> RollbackOutcomes] : RollbackAll(outcomes)
    \/ \E mp \in Mappings, f \in BOOLEAN : BatchBegin(mp, f)
    \/ \E orc \in Oracles : BatchApply(orc)
    \/ \E outcomes \in [Range(Committed) -> RollbackOutcomes] : BatchAbort(outcomes)
    \/ BatchReturn

Spec == Init /\ [][Next]_vars

\* ------------------------------------ TransactionManager used on its own
\* The action kinds and the callbacks a caller of the log uses: callbacks
\* that return True, return False, or raise.
Actions == {"spoof_mac", "spoof_driver"}
Callbacks == {"cb_true", "cb_false", "cb_raise"}
\* What callers of the log record: an action kind on an interface.
LogRequests == {<<"spoof_mac", "eth0">>, <<"spoof_driver", "eth1">>}

\* TransactionManager(max_transactions)
InitLog ==
    /\ txnObj = <<>>
    /\ transactions = <<>>
    /\ max_transactions \in 1..MaxCapacity
    /\ rollback_callbacks = [a \in {} |-> <<>>]
    /\ auto_rollback_on_error = FALSE
    /\ value = InitialMac
    /\ faithful = TRUE
    /\ faults = 0
    /\ lastChanged = [i \in Interfaces |-> NoTxn]
    /\ batch = NoBatch
    /\ lastCall = [op |-> "init"]
    /\ SchedulerInit
    /\ HistoryInit

\* add_transaction(action, interface, original_value, new_value)
Record(action, interface, original_value, new_value) ==
    /\ Len(txnObj) < MaxRecords
    /\ \E r \in {AddTransaction(Start, action, interface, original_value, new_value)} :
           /\ Store(r.st)
           /\ lastCall' = [op |-> "add_transaction", txn |-> r.txn]
    /\ UNCHANGED elsewhere
    /\ UNCHANGED <<max_transactions, rollback_callbacks, auto_rollback_on_error, batch>>

\* commit_transaction(transaction), on any reference the caller still holds
Commit(transaction) ==
    /\ Store(CommitTransaction(Start, transaction))
    /\ lastCall' = [op |-> "commit_transaction", txn |-> transaction]
    /\ UNCHANGED elsewhere
    /\ UNCHANGED <<max_transactions, rollback_callbacks, auto_rollback_on_error, batch>>

\* The callbacks registered, over all actions.
RegisteredCount(callbacks) ==
    LET RECURSIVE Sum(_)
        Sum(S) == IF S = {} THEN 0
                  ELSE LET a == CHOOSE x \in S : TRUE
                       IN  Len(callbacks[a]) + Sum(S \ {a})
    IN  Sum(DOMAIN callbacks)

\* register_rollback_callback(action, callback)
RegisterRollbackCallback(action, callback) ==
    /\ RegisteredCount(rollback_callbacks) < MaxCallbacks
    /\ rollback_callbacks' =
          [a \in DOMAIN rollback_callbacks \cup {action} |->
              IF a = action
              THEN Append(IF a \in DOMAIN rollback_callbacks
                          THEN rollback_callbacks[a] ELSE <<>>, callback)
              ELSE rollback_callbacks[a]]
    /\ lastCall' = [op |-> "register_rollback_callback"]
    /\ UNCHANGED elsewhere
    /\ UNCHANGED <<txnObj, transactions, max_transactions, auto_rollback_on_error,
                   value, faithful, faults, lastChanged, batch>>

\* rollback(transaction): transaction is a reference or NoTxn (all committed).
\* lastCall keeps every transaction's status on entry, and a mark (nth) that
\* tells a rollback call from the rollback call right before it.
RollbackCall(transaction) ==
    /\ \E r \in {Rollback(Start, transaction,
                          [t \in 1..Len(txnObj) |-> "ok"])} :
           /\ Store(r.st)
           /\ lastCall' = [op |-> "rollback", txn |-> transaction,
                           results |-> r.results,
                           todo |-> TransactionsToRollback(Start, transaction),
                           entry |-> [t \in 1..Len(txnObj) |-> txnObj[t].status],
                           nth |-> IF lastCall.op = "rollback" THEN 1 - lastCall.nth ELSE 0,
                           invoked |-> r.st.invoked, changes |-> r.st.changes]
    /\ UNCHANGED elsewhere
    /\ UNCHANGED <<max_transactions, rollback_callbacks, auto_rollback_on_error, batch>>

\* clear_history()
ClearHistory ==
    /\ transactions' = <<>>
    /\ lastCall' = [op |-> "clear_history"]
    /\ UNCHANGED elsewhere
    /\ UNCHANGED <<txnObj, max_transactions, rollback_callbacks, auto_rollback_on_error,
                   value, faithful, faults, lastChanged, batch>>

\* record, commit, register and rollback, in any order
NextLog ==
    \/ \E q \in LogRequests : Record(q[1], q[2], normalize_mac[InitialMac[q[2]]], MacA)
    \/ \E t \in 1..Len(txnObj) : Commit(t)
    \/ \E a \in Actions, c \in Callbacks : RegisterRollbackCallback(a, c)
    \/ \E t \in 0..Len(txnObj) : RollbackCall(t)

SpecLog == InitLog /\ [][NextLog]_vars

\* the same with clear_history
NextLogClear ==
    \/ NextLog
    \/ ClearHistory

SpecLogClear == InitLog /\ [][NextLogClear]_vars

\* ------------------------------------- MacAddressSpoofer, stacked changes
\* Callers that change an interface from one valid address to another, roll
\* everything back, and reset the history of the orchestrator's
\* transaction_manager: spoof_mac_address, rollback_all_changes and
\* transaction_manager.clear_history.
NextStacked ==
    \/ \E i \in Interfaces, m \in StackedMacs, orc \in Oracles :
          ApplyChange(i, m, FALSE, orc)
    \/ \E outcomes \in [Range(Committed) -> RollbackOutcomes] : RollbackAll(outcomes)
    \/ Idle /\ ClearHistory

SpecStacked == Init /\ [][NextStacked]_vars

\* ------------------------------------------------------------ the scheduler
\* A Scheduler constructed with a callback, its caller, and the threads that
\* start() spawns. The caller creates, enables, disables and runs tasks and
\* starts and stops the scheduler; each spawned thread runs _scheduler_loop;
\* time passes. A callback returns or raises. The orchestrator is left alone.
orchestrator == <<txnObj, transactions, max_transactions, rollback_callbacks,
                  auto_rollback_on_error, value, faithful, faults, lastChanged, batch>>

InitScheduler ==
    /\ txnObj = <<>>
    /\ transactions = <<>>
    /\ max_transactions = SpooferCapacity
    /\ rollback_callbacks = ("spoof_mac" :> <<"rollback_mac_spoof">>)
    /\ auto_rollback_on_error = TRUE
    /\ value = InitialMac
    /\ faithful = TRUE
    /\ faults = 0
    /\ lastChanged = [i \in Interfaces |-> NoTxn]
    /\ batch = NoBatch
    /\ lastCall = [op |-> "init"]
    /\ SchedulerInit
    /\ HistoryInit

CallbackOutcomes == {"return", "raise"}

\* What the last run_task call returned, and what its callback did; nth tells
\* a call from the call before.
RunTaskReturned(name, outcome, ret) ==
    [op |-> "run_task", name |-> name, callback |-> outcome, ret |-> ret,
     nth |-> IF lastCall.op = "run_task" THEN 1 - lastCall.nth ELSE 0]

\* create_task(name, interface, action, frequency, ...) with a name not in use
\* (with a name in use it returns None and changes nothing)
CreateTask(name, frequency, custom_interval_seconds, max_runs) ==
    /\ GetTask(name) = 0
    /\ tasks' = Append(tasks, UpdateNextRun(
                   ScheduledTask(name, frequency, custom_interval_seconds, max_runs)))
    /\ UNCHANGED <<running, scheduler_thread, threads, now, loop_runs, entries,
                   lastCall>>
    /\ UNCHANGED orchestrator

\* disable_task(name) on an existing task
DisableTask(name) ==
    /\ GetTask(name) # 0
    /\ tasks' = [tasks EXCEPT ![GetTask(name)].enabled = FALSE]
    /\ UNCHANGED <<running, scheduler_thread, threads, now, loop_runs, entries,
                   lastCall>>
    /\ UNCHANGED orchestrator

\* A faulty variant of RunTaskEnd: the execution is recorded whether the
\* callback returned or raised.
RunTaskEndAlwaysRecords(name, outcome) ==
    /\ tasks' = [tasks EXCEPT ![GetTask(name)] = RecordExecution(@)]
    /\ lastCall' = RunTaskReturned(name, outcome, outcome = "return")

\* The end of run_task(name): the callback has returned or raised.
RunTaskEnd(name, outcome) ==
    IF outcome = "return"
    THEN /\ tasks' = [tasks EXCEPT ![GetTask(name)] = RecordExecution(@)]
         /\ lastCall' = RunTaskReturned(name, outcome, TRUE)
    ELSE /\ tasks' = tasks
         /\ lastCall' = RunTaskReturned(name, outcome, FALSE)

\* run_task(name) by the caller, on an existing task
RunTask(name, outcome) ==
    /\ GetTask(name) # 0
    /\ tasks[GetTask(name)].run_count < MaxRunCount
    /\ RunTaskEnd(name, outcome)
    /\ UNCHANGED <<running, scheduler_thread, threads, now, loop_runs, entries>>
    /\ UNCHANGED orchestrator

\* A thread entering _scheduler_loop. seen is the number of threads spawned
\* when the thread last found running true; ran are the due tasks whose
\* run_task it has called in this pass, active those whose callback it is in.
Thread ==
    [pc |-> "while", due_tasks |-> <<>>, ran |-> <<>>, active |-> {}, seen |-> 0]

\* start(interval_seconds)
SchedulerStart ==
    /\ IF running
       THEN UNCHANGED <<running, threads, scheduler_thread>>
       ELSE /\ Len(threads) < MaxThreads
            /\ running' = TRUE
            /\ threads' = Append(threads, Thread)
            /\ scheduler_thread' = Len(threads) + 1
    /\ UNCHANGED <<tasks, now, loop_runs, entries, lastCall>>
    /\ UNCHANGED orchestrator

\* stop(): join(timeout=5) returns when the thread has ended or after five
\* seconds, whichever is first; a thread that sleeps for interval_seconds or
\* is inside a callback outlives the wait, and takes its steps after this one.
SchedulerStop ==
    /\ running' = (IF running THEN FALSE ELSE running)
    /\ UNCHANGED <<tasks, scheduler_thread, threads, now, loop_runs, entries, lastCall>>
    /\ UNCHANGED orchestrator

\* _scheduler_loop, the test of the while loop, taken when the thread starts
\* and each time it wakes from time.sleep: with running true the thread
\* collects the due tasks, with running false it ends.
LoopTest(th) ==
    /\ threads[th].pc = "while"
    /\ threads' = [threads EXCEPT ![th] =
          IF running
          THEN [pc |-> IF GetDueTasks = <<>> THEN "while" ELSE "for",
                due_tasks |-> GetDueTasks, ran |-> <<>>, active |-> {},
                seen |-> Len(threads)]
          ELSE [@ EXCEPT !.pc = "done"]]
    /\ UNCHANGED <<tasks, running, scheduler_thread, now, loop_runs, entries, lastCall>>
    /\ UNCHANGED orchestrator

\* _scheduler_loop, the for loop: run_task(task.name) up to the call of the
\* callback
LoopRunTask(th) ==
    /\ threads[th].pc = "for"
    /\ LET name == threads[th].due_tasks[Len(threads[th].ran) + 1]
       IN  /\ loop_runs[name] < MaxLoopRuns
           /\ loop_runs' = [loop_runs EXCEPT ![name] = @ + 1]
           /\ threads' = [threads EXCEPT ![th].pc = "callback",
                                         ![th].ran = Append(@, name),
                                         ![th].active = @ \cup {name}]
    /\ UNCHANGED <<tasks, running, scheduler_thread, now, entries, lastCall>>
    /\ UNCHANGED orchestrator

\* A faulty variant of LoopCallbackReturns: a callback that raises ends the
\* pass, and the due tasks that remain are not run.
LoopCallbackReturnsStopAtRaise(th, outcome) ==
    /\ threads[th].pc = "callback"
    /\ LET name == threads[th].ran[Len(threads[th].ran)]
       IN  /\ RunTaskEnd(name, outcome)
           /\ threads' = [threads EXCEPT
                 ![th].pc = IF /\ Len(threads[th].ran) < Len(threads[th].due_tasks)
                               /\ outcome = "return"
                            THEN "for" ELSE "while",
                 ![th].active = @ \ {name}]
    /\ UNCHANGED <<running, scheduler_thread, now, loop_runs, entries>>
    /\ UNCHANGED orchestrator

\* _scheduler_loop, the for loop: the callback returns or raises, run_task
\* returns, and the loop goes to the next due task or to sleep
LoopCallbackReturns(th, outcome) ==
    /\ threads[th].pc = "callback"
    /\ LET name == threads[th].ran[Len(threads[th].ran)]
       IN  /\ RunTaskEnd(name, outcome)
           /\ threads' = [threads EXCEPT
                 ![th].pc = IF Len(threads[th].ran) < Len(threads[th].due_tasks)
                            THEN "for" ELSE "while",
                 ![th].active = @ \ {name}]
    /\ UNCHANGED <<running, scheduler_thread, now, loop_runs, entries>>
    /\ UNCHANGED orchestrator

\* An hour passes.
Tick ==
    /\ now < MaxTime
    /\ now' = now + 1
    /\ UNCHANGED <<tasks, running, scheduler_thread, threads, loop_runs, entries, lastCall>>
    /\ UNCHANGED orchestrator

\* What callers pass to create_task: a frequency, with an interval of one
\* hour for a custom one, and a limit of one run or none.
TaskRequests ==
    {<<"once", NoInterval, NoLimit>>, <<"hourly", NoInterval, 1>>,
     <<"custom", 1, NoLimit>>}

\* A caller that creates, disables and runs tasks and starts the scheduler,
\* and the loop of the one thread that start() spawns.
NextScheduler ==
    \/ \E n \in TaskNames, q \in TaskRequests : CreateTask(n, q[1], q[2], q[3])
    \/ \E n \in TaskNames : DisableTask(n)
    \/ \E n \in TaskNames, outcome \in CallbackOutcomes : RunTask(n, outcome)
    \/ SchedulerStart
    \/ \E th \in 1..Len(threads) : LoopTest(th)
    \/ \E th \in 1..Len(threads) : LoopRunTask(th)
    \/ \E th \in 1..Len(threads), outcome \in CallbackOutcomes :
          LoopCallbackReturns(th, outcome)
    \/ Tick

SpecScheduler == InitScheduler /\ [][NextScheduler]_vars

\* A caller that creates one task and starts and stops the scheduler any
\* number of times, and the loops of the threads that start() spawns.
NextRestart ==
    \/ CreateTask("t1", "once", NoInterval, NoLimit)
    \/ SchedulerStart
    \/ SchedulerStop
    \/ \E th \in 1..Len(threads) : LoopTest(th)
    \/ \E th \in 1..Len(threads) : LoopRunTask(th)
    \/ \E th \in 1..Len(threads), outcome \in CallbackOutcomes :
          LoopCallbackReturns(th, outcome)

SpecRestart == InitScheduler /\ [][NextRestart]_vars

\* --------------------------------------------------------- the MAC history
\* A MacHistory on an empty directory and a caller of record_spoof. The
\* history holds at most MaxEntries entries.
MaxEntries == 5

\* MacEntry(interface, mac_address, action, notes, is_original): the fields
\* the history reads
MacEntry(interface, mac_address, action, is_original) ==
    [interface |-> interface, mac_address |-> mac_address, action |-> action,
     status |-> "active", is_original |-> is_original]

\* record_mac(interface, mac_address, action, notes, is_original)
RecordMac(es, interface, mac_address, action, is_original) ==
    Append(es, MacEntry(interface, mac_address, action, is_original))

\* A faulty variant of GetOriginalMac: only the newest entry is looked at.
GetOriginalMacNewestOnly(es, interface) ==
    IF es # <<>> /\ es[Len(es)].interface = interface /\ es[Len(es)].is_original
    THEN Len(es)
    ELSE 0

\* get_original_mac(interface): the place of the entry in entries, 0 for None
GetOriginalMac(es, interface) ==
    IF \E k \in 1..Len(es) : es[k].interface = interface /\ es[k].is_original
    THEN CHOOSE k \in 1..Len(es) :
            /\ es[k].interface = interface /\ es[k].is_original
            /\ \A j \in 1..(k - 1) : ~ (es[j].interface = interface /\ es[j].is_original)
    ELSE 0

\* record_spoof(interface, original_mac, new_mac)
RecordSpoof(interface, original_mac, new_mac) ==
    /\ Len(entries) < MaxEntries
    /\ LET recorded == IF GetOriginalMac(entries, interface) = 0
                       THEN RecordMac(entries, interface, original_mac, "detected", TRUE)
                       ELSE entries
       IN  /\ entries' = RecordMac(recorded, interface, new_mac, "spoof", FALSE)
           /\ Len(entries') <= MaxEntries
    /\ lastCall' = [op |-> "record_spoof", interface |-> interface,
                    original_mac |-> original_mac, new_mac |-> new_mac]
    /\ UNCHANGED <<tasks, running, scheduler_thread, threads, now, loop_runs>>
    /\ UNCHANGED orchestrator

\* The addresses callers report as the original one and as the new one.
OriginalMacs == {MacE0, MacA}
NewMacs == {MacA, MacB}

NextHistory ==
    \E i \in Interfaces, o \in OriginalMacs, m \in NewMacs : RecordSpoof(i, o, m)

SpecHistory == InitScheduler /\ [][NextHistory]_vars

\* ================================================================ claims
\* The transactions of the log on one interface, oldest first.
LogOf(i) == SelectSeq(transactions, LAMBDA t : txnObj[t].interface = i)

\* C1 as stated: with a platform handler that behaves as documented, between
\* calls the log agrees with the resource: on every interface whose most recent
\* transaction in the log is committed the value is its new value, and where
\* it is rolled_back the value is its original value.
C1_LogAgreesWithResource ==
    (Idle /\ faithful) =>
        \A i \in Interfaces :
            LogOf(i) # <<>> =>
                LET t == txnObj[LogOf(i)[Len(LogOf(i))]]
                IN  /\ t.status = "committed"   => value[i] = t.new_value
                    /\ t.status = "rolled_back" => value[i] = t.original_value

\* C1 amended: with a platform handler that behaves as documented, on every
\* interface the value agrees with the transaction whose status was changed
\* last (by commit or rollback): its new value if that made it committed, its
\* original value if that made it rolled_back.
C1_LastChangedAgrees ==
    faithful =>
        \A i \in Interfaces :
            lastChanged[i] # NoTxn =>
                LET t == txnObj[lastChanged[i]]
                IN  /\ t.interface = i
                    /\ t.status \in {"committed", "rolled_back"}
                    /\ t.status = "committed"   => value[i] = t.new_value
                    /\ t.status = "rolled_back" => value[i] = t.original_value

\* C1 witness: two stacked changes of one interface were both rolled back, so
\* the transaction changed last is the older one and the value is its
\* original value, not the newer one's.
C1_Witness ==
    /\ Idle /\ faithful
    /\ \E i \in Interfaces :
          /\ Len(LogOf(i)) = 2
          /\ lastChanged[i] = LogOf(i)[1]
          /\ txnObj[LogOf(i)[1]].status = "rolled_back"
          /\ txnObj[LogOf(i)[2]].status = "rolled_back"
          /\ value[i] = txnObj[LogOf(i)[1]].original_value
          /\ value[i] # txnObj[LogOf(i)[2]].original_value

\* The last call was spoof_mac_address, set_mac_address returned True in it
\* and the value re-read afterwards does not normalize to the requested one.
C2_Distrusted ==
    /\ lastCall.op = "spoof_mac_address"
    /\ Len(lastCall.calls) >= 3
    /\ lastCall.calls[2].kind = "set"
    /\ lastCall.calls[2].outcome \in {"ok", "lie"}
    /\ lastCall.calls[3].kind = "get"
    /\ lastCall.calls[3].outcome # "raise"
    /\ \/ ~ Truthy(lastCall.calls[3].ret)
       \/ NormalizeMac(lastCall.calls[3].ret) # NormalizeMac(lastCall.mac_address)

\* The transaction the last call recorded was committed by it.
CommittedByLastCall ==
    \E k \in 1..Len(lastCall.changes) :
        lastCall.changes[k][1] = lastCall.txn /\ lastCall.changes[k][3] = "committed"

\* C2 as stated: set_mac_address returned True but the value re-read does not
\* normalize to the requested one: spoof_mac_address reports failure, never
\* commits the transaction and, with auto_rollback_on_error, leaves it
\* rolled_back.
C2_VerificationDistrust ==
    C2_Distrusted =>
        /\ ~ lastCall.ret.success
        /\ lastCall.txn # NoTxn
        /\ ~ CommittedByLastCall
        /\ txnObj[lastCall.txn].status # "committed"
        /\ auto_rollback_on_error => txnObj[lastCall.txn].status = "rolled_back"

\* C2 amended: in that case spoof_mac_address reports failure and never
\* commits the transaction; with auto_rollback_on_error the rollback callback
\* is invoked for it and the transaction is left rolled_back if the callback
\* returns True and pending if it does not; without auto_rollback_on_error no
\* callback is invoked and it is left pending.
C2_VerificationDistrustAmended ==
    C2_Distrusted =>
        /\ ~ lastCall.ret.success
        /\ lastCall.txn # NoTxn
        /\ ~ CommittedByLastCall
        /\ txnObj[lastCall.txn].status # "committed"
        /\ auto_rollback_on_error =>
              /\ Len(lastCall.invoked) = 1
              /\ lastCall.invoked[1][1] = "rollback_mac_spoof"
              /\ lastCall.invoked[1][2] = lastCall.txn
              /\ txnObj[lastCall.txn].status =
                    IF lastCall.invoked[1][3] = "True" THEN "rolled_back" ELSE "pending"
        /\ ~ auto_rollback_on_error =>
              /\ lastCall.invoked = <<>>
              /\ txnObj[lastCall.txn].status = "pending"

\* C2 witness: set_mac_address returned True without changing anything, the
\* re-read value was still the old one, and the auto-rollback left the
\* transaction rolled_back.
C2_Witness ==
    /\ C2_Distrusted
    /\ auto_rollback_on_error
    /\ lastCall.calls[2].outcome = "lie"
    /\ lastCall.calls[3].ret = lastCall.calls[1].ret
    /\ txnObj[lastCall.txn].status = "rolled_back"
    /\ ~ lastCall.ret.success

\* The step is a spoof_mac_address call on an interface whose value already
\* normalizes to the requested one.
C3_AlreadySet ==
    /\ lastCall'.op = "spoof_mac_address"
    /\ lastCall'.mac_address \in MacTexts
    /\ normalize_mac[value[lastCall'.interface]] = normalize_mac[lastCall'.mac_address]

\* The call of the step succeeded, left the log as it was and made no
\* set_mac_address call.
C3_ShortCircuited ==
    /\ lastCall'.ret.success
    /\ transactions' = transactions
    /\ txnObj' = txnObj
    /\ \A k \in 1..Len(lastCall'.calls) : lastCall'.calls[k].kind # "set"

\* C3 as stated: whenever the interface's value already normalizes to the
\* requested value, spoof_mac_address returns success, leaves the log
\* unchanged and never calls set_mac_address.
C3_IdempotentShortCircuit == [][C3_AlreadySet => C3_ShortCircuited]_vars

\* C3 amended: whenever the request passes validation (or is forced), the
\* snapshot read returns the interface's value and that value normalizes to
\* the requested one, spoof_mac_address returns success, leaves the log
\* unchanged and never calls set_mac_address; when validation or the snapshot
\* read fails it returns failure, also with the log unchanged and no
\* set_mac_address call.
C3_IdempotentShortCircuitAmended ==
    [][C3_AlreadySet =>
          /\ transactions' = transactions
          /\ txnObj' = txnObj
          /\ \A k \in 1..Len(lastCall'.calls) : lastCall'.calls[k].kind # "set"
          /\ lastCall'.ret.success <=>
                /\ lastCall'.force \/ validate[lastCall'.mac_address].is_valid
                /\ Len(lastCall'.calls) = 1
                /\ lastCall'.calls[1].outcome = "ok"]_vars

\* C3 witness: a call that short-circuited on a value written differently
\* from the request, with a transaction already in the log.
C3_Witness ==
    /\ lastCall.op = "spoof_mac_address"
    /\ lastCall.ret.success
    /\ lastCall.ret.message.text = "already has MAC"
    /\ lastCall.txn = NoTxn
    /\ value[lastCall.interface] # lastCall.mac_address
    /\ transactions # <<>>

\* The last call was rollback() without an argument on the log.
RolledBackAll == lastCall.op = "rollback" /\ lastCall.txn = NoTxn

\* The positions in the invoked of the last call where transaction t's
\* callbacks were invoked.
InvokedAt(t) == {k \in 1..Len(lastCall.invoked) : lastCall.invoked[k][2] = t}

\* C4: rollback() invokes the callbacks of the committed transactions in
\* reverse order of recording: every invocation is for a transaction that was
\* committed, every committed transaction whose action has a callback gets
\* one, and for T1 recorded before T2 every invocation for T2 comes before
\* every invocation for T1.
C4_RollbackLifo ==
    RolledBackAll =>
        LET todo == lastCall.todo
        IN  /\ \A k \in 1..Len(lastCall.invoked) : lastCall.invoked[k][2] \in Range(todo)
            /\ \A j \in 1..Len(todo) :
                  txnObj[todo[j]].action \in DOMAIN rollback_callbacks
                      => InvokedAt(todo[j]) # {}
            /\ \A j \in 1..Len(todo), k \in 1..Len(todo) :
                  j < k => \A a \in InvokedAt(todo[j]), b \in InvokedAt(todo[k]) : b < a

\* C4 witness: rollback() found two committed transactions and invoked a
\* callback for each.
C4_Witness ==
    /\ RolledBackAll
    /\ Len(lastCall.todo) = 2
    /\ InvokedAt(lastCall.todo[1]) # {}
    /\ InvokedAt(lastCall.todo[2]) # {}

\* The step is a rollback(t) call that directly follows a rollback(t) call on
\* the same transaction t.
C5_SecondCall ==
    /\ lastCall.op = "rollback" /\ lastCall.txn # NoTxn
    /\ lastCall'.op = "rollback" /\ lastCall'.txn = lastCall.txn
    /\ lastCall'.nth # lastCall.nth

\* The rollback call of the step invoked no callback and counted nothing.
C5_NoOp ==
    /\ lastCall'.invoked = <<>>
    /\ lastCall'.results.rolled_back_count = 0
    /\ lastCall'.results.failed_count = 0

\* C5 as stated: of two rollback calls on the same transaction the second is a
\* no-op: it invokes no callback and counts nothing in its report.
C5_AtMostOneRollback == [][C5_SecondCall => C5_NoOp]_vars

\* C5 amended: of two rollback calls on the same transaction, the second is a
\* no-op (no callback invoked, rolled_back_count 0, failed_count 0, nothing
\* changed) if the first left the transaction rolled_back; if the first failed,
\* the second tries the callbacks again and counts the transaction again.
C5_AtMostOneRollbackAmended ==
    [][C5_SecondCall =>
          IF txnObj[lastCall.txn].status = "rolled_back"
          THEN C5_NoOp /\ lastCall'.results = EmptyResults /\ txnObj' = txnObj
          ELSE lastCall'.results.rolled_back_count + lastCall'.results.failed_count = 1
      ]_vars

\* C5 witness: a second rollback call in a row, on a transaction that was
\* rolled_back on entry, which did nothing.
C5_Witness ==
    /\ lastCall.op = "rollback" /\ lastCall.txn # NoTxn
    /\ lastCall.nth = 1
    /\ lastCall.entry[lastCall.txn] = "rolled_back"
    /\ lastCall.invoked = <<>>
    /\ lastCall.results = EmptyResults
    /\ txnObj[lastCall.txn].action \in DOMAIN rollback_callbacks

\* C9: after n add_transaction calls on a log of capacity C the history is no
\* longer than C and is exactly the last min(n, C) transactions recorded, in
\* recording order.
C9_BoundedLog ==
    LET n == Len(txnObj)
        m == IF n < max_transactions THEN n ELSE max_transactions
    IN  /\ Len(transactions) <= max_transactions
        /\ transactions = [k \in 1..m |-> n - m + k]

\* C9 witness: more transactions were recorded than the log holds.
C9_Witness ==
    /\ Len(txnObj) = max_transactions + 1
    /\ max_transactions > 1
    /\ transactions = [k \in 1..max_transactions |-> k + 1]

\* The status changes made by the call that returned last or is running.
StatusChanges ==
    IF batch.pc # "idle" THEN batch.changes
    ELSE IF lastCall.op \in {"spoof_mac_address", "rollback_all_changes",
                             "spoof_multiple_interfaces"}
    THEN lastCall.changes
    ELSE <<>>

AllowedChanges ==
    {<<"pending", "committed">>, <<"committed", "rolled_back">>,
     <<"pending", "rolled_back">>}

\* C10: every status change made by spoof_mac_address,
\* spoof_multiple_interfaces and rollback_all_changes goes pending ->
\* committed, committed -> rolled_back or pending -> rolled_back.
C10_StatusOneWay ==
    \A k \in 1..Len(StatusChanges) :
        <<StatusChanges[k][2], StatusChanges[k][3]>> \in AllowedChanges

\* C10 witness: one batch call made all three kinds of change.
C10_Witness ==
    /\ lastCall.op = "spoof_multiple_interfaces"
    /\ \A c \in AllowedChanges :
          \E k \in 1..Len(lastCall.changes) :
              <<lastCall.changes[k][2], lastCall.changes[k][3]>> = c

\* The last call was spoof_multiple_interfaces with
\* rollback_on_partial_failure, and it stopped at a failing interface.
BatchAborted ==
    /\ lastCall.op = "spoof_multiple_interfaces"
    /\ lastCall.rollback_on_partial_failure
    /\ lastCall.aborted

\* The positions of the batch's earlier interfaces whose change succeeded with
\* a committed transaction (the last position processed is the failing one).
EarlierCommitted ==
    {j \in 1..(Len(lastCall.own) - 1) :
        /\ lastCall.own[j].ret.success
        /\ lastCall.own[j].txn # NoTxn}

\* The rollback callback was invoked for transaction t in the last call, and
\* t is rolled_back if it returned True.
RevertedUnlessCallbackFailed(t) ==
    /\ \E k \in 1..Len(lastCall.invoked) :
          lastCall.invoked[k][1] = "rollback_mac_spoof" /\ lastCall.invoked[k][2] = t
    /\ \A k \in 1..Len(lastCall.invoked) :
          (lastCall.invoked[k][2] = t /\ lastCall.invoked[k][3] = "True")
              => txnObj[t].status = "rolled_back"

C7_OneResultPerTarget ==
    lastCall.op = "spoof_multiple_interfaces" =>
        /\ Range(DictKeys(lastCall.ret)) =
              {lastCall.mappings[k][1] : k \in 1..Len(lastCall.mappings)}
        /\ Len(lastCall.ret) = Len(lastCall.mappings)

\* C8: when a batch with rollback_on_partial_failure aborts, exactly the
\* interfaces not yet processed are reported as cancelled: the failing
\* interface keeps its own failure message and the interfaces before it are
\* not reported as cancelled.
C8_CancelledOnlyUnprocessed ==
    BatchAborted =>
        \A k \in 1..Len(lastCall.mappings) :
            LET interface == lastCall.mappings[k][1]
                failing   == Len(lastCall.own)
            IN  /\ DictHas(lastCall.ret, interface)
                /\ k > failing => DictGet(lastCall.ret, interface) = Cancelled
                /\ k = failing => DictGet(lastCall.ret, interface) = lastCall.own[k].ret
                /\ k < failing => DictGet(lastCall.ret, interface) # Cancelled

\* The status changes of the step, as (transaction, from, to).
StepChanges ==
    {<<t, txnObj[t].status, txnObj'[t].status>> : t \in 1..Len(txnObj)}
        \ {<<t, s, s>> : t \in 1..Len(txnObj), s \in {"pending", "committed", "rolled_back"}}

\* C11 as stated: over any sequence of add_transaction, commit_transaction and
\* rollback calls a transaction's status only moves pending -> committed,
\* committed -> rolled_back or pending -> rolled_back; in particular a
\* rolled_back transaction never becomes committed or pending again.
C11_LogStatusOneWay ==
    [][\A c \in StepChanges : <<c[2], c[3]>> \in AllowedChanges]_vars

\* C11 amended: the only other status change is rolled_back -> committed, made
\* by commit_transaction when it is called on a rolled_back transaction (the
\* log does not guard it); rollback never changes a rolled_back transaction and
\* changes no transaction twice in one call, and nothing ever makes a
\* transaction pending again.
C11_LogStatusOneWayAmended ==
    [][/\ \A c \in StepChanges :
             \/ <<c[2], c[3]>> \in AllowedChanges
             \/ /\ lastCall'.op = "commit_transaction"
                /\ lastCall'.txn = c[1]
                /\ c[2] = "rolled_back" /\ c[3] = "committed"
       /\ lastCall'.op = "rollback" =>
             /\ \A c \in StepChanges : c[3] = "rolled_back"
             /\ \A k \in 1..Len(lastCall'.changes) :
                   /\ lastCall'.changes[k][2] # "rolled_back"
                   /\ lastCall'.changes[k][3] = "rolled_back"
                   /\ \A j \in 1..Len(lastCall'.changes) :
                         lastCall'.changes[j][1] = lastCall'.changes[k][1] => j = k]_vars

\* C11 witness: a rollback call that found one transaction already rolled_back
\* and left it so, while it rolled back another one.
C11_Witness ==
    /\ lastCall.op = "rollback"
    /\ \E t \in 1..Len(txnObj), u \in 1..Len(txnObj) :
          /\ t # u
          /\ lastCall.entry[t] = "rolled_back"
          /\ txnObj[t].status = "rolled_back"
          /\ lastCall.entry[u] = "committed"
          /\ txnObj[u].status = "rolled_back"

\* What the platform handler did in a spoof_mac_address call whose calls are
\* given, as an oracle in which the set call of the rollback callback succeeds.
WithRollbackOk(calls) ==
    [g1 |-> calls[1].outcome,
     s  |-> calls[2].outcome,
     g2 |-> IF Len(calls) >= 3 /\ calls[3].kind = "get" THEN calls[3].outcome ELSE "ok",
     r  |-> "ok"]

\* C12: a rollback failure is surfaced. When the auto-rollback inside
\* spoof_mac_address fails, the pair returned differs from the pair the same
\* call returns when that rollback succeeds; when the rollback inside
\* spoof_multiple_interfaces fails for some transaction, the results returned
\* differ from the results of the same batch when it succeeds.
C12_RollbackFailureSurfaced ==
    [][/\ (/\ lastCall'.op = "spoof_mac_address"
           /\ lastCall' # lastCall
           /\ \E k \in 1..Len(lastCall'.invoked) : lastCall'.invoked[k][3] # "True")
          => lastCall'.ret #
                SpoofMacAddress(Start, lastCall'.interface, lastCall'.mac_address,
                                lastCall'.force, WithRollbackOk(lastCall'.calls)).ret
       /\ (/\ batch.pc = "abort" /\ batch'.pc = "return"
           /\ batch'.rollback_result.failed_count > 0)
          => batch'.results #
                DictSetAll(batch.results,
                           RemainingInterfaces(batch.results, batch.mappings[batch.i][1],
                                               batch.own[Len(batch.own)].ret),
                           Cancelled)]_vars

\* The last call was rollback (with or without argument) on the log.
RollbackReturned == lastCall.op = "rollback"

\* Transaction t was tried by the last rollback call (it was selected and not
\* rolled_back on entry) and no callback invoked for it returned True.
RollbackFailedFor(t) ==
    /\ t \in Range(lastCall.todo)
    /\ lastCall.entry[t] # "rolled_back"
    /\ \A k \in InvokedAt(t) : lastCall.invoked[k][3] # "True"

\* The entry rollback appends to failed_transactions for transaction t.
FailedEntry(t) ==
    [action |-> txnObj[t].action, interface |-> txnObj[t].interface,
     original_value |-> txnObj[t].original_value, new_value |-> txnObj[t].new_value]

\* The failed transactions of the last rollback call, in the order rollback
\* takes them (latest first).
FailedInOrder ==
    LET todo == lastCall.todo
        rev  == [k \in 1..Len(todo) |-> todo[Len(todo) + 1 - k]]
    IN  SelectSeq(rev, RollbackFailedFor)

\* C13: when no callback registered for a transaction's action returns True,
\* or none is registered, rollback leaves the transaction's status as it was,
\* counts it once in failed_count and appends its action, interface, original
\* value and new value to failed_transactions.
C13_FailedRollbackRecorded ==
    RollbackReturned =>
        /\ \A t \in Range(lastCall.todo) :
              RollbackFailedFor(t) => txnObj[t].status = lastCall.entry[t]
        /\ lastCall.results.failed_count = Len(FailedInOrder)
        /\ lastCall.results.failed_transactions =
              [k \in 1..Len(FailedInOrder) |-> FailedEntry(FailedInOrder[k])]
        /\ lastCall.results.success <=> FailedInOrder = <<>>

\* C13 witness: rollback() took two committed transactions, one whose action
\* has no callback at all and one whose callback returned True; the first
\* stayed committed and was reported.
C13_Witness ==
    /\ RolledBackAll
    /\ Len(lastCall.todo) = 2
    /\ \E t \in Range(lastCall.todo), u \in Range(lastCall.todo) :
          /\ RollbackFailedFor(t) /\ InvokedAt(t) = {}
          /\ txnObj[t].status = "committed"
          /\ txnObj[u].status = "rolled_back"
    /\ lastCall.results.failed_count = 1
    /\ Len(lastCall.results.failed_transactions) = 1

\* The transactions whose status the last rollback call changed to rolled_back.
NewlyRolledBack ==
    {t \in 1..Len(txnObj) :
        lastCall.entry[t] # "rolled_back" /\ txnObj[t].status = "rolled_back"}

\* C14: the report of every rollback call is accurate: success is true iff
\* failed_count is 0, rolled_back_count is the number of transactions whose
\* status the call changed to rolled_back, failed_count is the length of
\* failed_transactions; and rollback() on one committed transaction whose
\* first callback always returns True reports (True, 1, 0) and leaves it
\* rolled_back.
C14_ReportAccurate ==
    RollbackReturned =>
        /\ lastCall.results.success <=> lastCall.results.failed_count = 0
        /\ lastCall.results.rolled_back_count = Cardinality(NewlyRolledBack)
        /\ lastCall.results.rolled_back_count = Len(lastCall.changes)
        /\ \A t \in 1..Len(txnObj) :
              t \notin NewlyRolledBack => txnObj[t].status = lastCall.entry[t]
        /\ lastCall.results.failed_count = Len(lastCall.results.failed_transactions)
        /\ \A t \in 1..Len(txnObj) :
              (/\ RolledBackAll
               /\ lastCall.todo = <<t>>
               /\ txnObj[t].action \in DOMAIN rollback_callbacks
               /\ Head(rollback_callbacks[txnObj[t].action]) = "cb_true")
              => /\ lastCall.results =
                       [success |-> TRUE, rolled_back_count |-> 1, failed_count |-> 0,
                        failed_transactions |-> <<>>]
                 /\ txnObj[t].status = "rolled_back"

\* C14 witness: rollback() on a log whose one committed transaction has a
\* callback that returns True reported (True, 1, 0).
C14_Witness ==
    /\ RolledBackAll
    /\ Len(lastCall.todo) = 1
    /\ lastCall.entry[lastCall.todo[1]] = "committed"
    /\ txnObj[lastCall.todo[1]].status = "rolled_back"
    /\ lastCall.invoked = <<<<"cb_true", lastCall.todo[1], "True">>>>
    /\ lastCall.results.success
    /\ lastCall.results.rolled_back_count = 1
    /\ lastCall.results.failed_count = 0

\* The transactions of the log that are pending.
Pending == SelectSeq(transactions, LAMBDA t : txnObj[t].status = "pending")

\* C15: with auto_rollback_on_error disabled, a transaction that a failed
\* spoof_mac_address left pending is rolled back by a later
\* rollback_all_changes(): the call invokes the rollback callback for it and,
\* when the callback returns True, marks it rolled_back.
C15_PendingRolledBackManually ==
    [][(/\ ~ auto_rollback_on_error
        /\ lastCall'.op = "rollback_all_changes"
        /\ lastCall' # lastCall)
       => \A t \in Range(Pending) :
             /\ \E k \in 1..Len(lastCall'.invoked) : lastCall'.invoked[k][2] = t
             /\ \A k \in 1..Len(lastCall'.invoked) :
                   (lastCall'.invoked[k][2] = t /\ lastCall'.invoked[k][3] = "True")
                       => txnObj'[t].status = "rolled_back"]_vars

\* The step is a caller's spoof_mac_address call (not one made by a running
\* spoof_multiple_interfaces).
SpoofStep == Idle /\ Idle' /\ lastCall'.op = "spoof_mac_address"

\* The validator rejects the address requested by the call of the step.
Rejected ==
    /\ lastCall'.mac_address \in MacTexts
    /\ ~ validate[lastCall'.mac_address].is_valid

\* C16: a spoof_mac_address call without force whose address the validator
\* rejects returns failure, leaves the transaction log unchanged and calls
\* neither get_mac_address nor set_mac_address; with force the validation is
\* skipped and the call goes on to the snapshot read of the interface.
C16_ValidationGate ==
    [][SpoofStep /\ Rejected =>
          IF lastCall'.force
          THEN /\ Len(lastCall'.calls) >= 1
               /\ lastCall'.calls[1].kind = "get"
               /\ lastCall'.calls[1].interface = lastCall'.interface
               /\ lastCall'.ret.message.text # "Invalid MAC"
          ELSE /\ ~ lastCall'.ret.success
               /\ lastCall'.ret.message.text = "Invalid MAC"
               /\ transactions' = transactions
               /\ txnObj' = txnObj
               /\ lastCall'.calls = <<>>
               /\ lastCall'.invoked = <<>>]_vars

\* C16 witness: a rejected, unforced call returned with a transaction already
\* in the log.
C16_Witness ==
    /\ lastCall.op = "spoof_mac_address"
    /\ ~ lastCall.force
    /\ lastCall.mac_address \in MacTexts
    /\ ~ validate[lastCall.mac_address].is_valid
    /\ ~ lastCall.ret.success
    /\ lastCall.calls = <<>>
    /\ transactions # <<>>

\* The snapshot read of the call of the step failed: get_mac_address returned
\* None or raised.
SnapshotFailed ==
    /\ Len(lastCall'.calls) >= 1
    /\ lastCall'.calls[1].kind = "get"
    /\ lastCall'.calls[1].outcome \in {"none", "raise"}

\* C17: when the snapshot read of the interface's current value fails,
\* spoof_mac_address returns failure, leaves the transaction log unchanged and
\* never calls set_mac_address.
C17_SnapshotFailure ==
    [][SpoofStep /\ SnapshotFailed =>
          /\ ~ lastCall'.ret.success
          /\ transactions' = transactions
          /\ txnObj' = txnObj
          /\ lastCall'.txn = NoTxn
          /\ \A k \in 1..Len(lastCall'.calls) : lastCall'.calls[k].kind # "set"
          /\ lastCall'.invoked = <<>>]_vars

\* C17 witness: a call whose snapshot read raised returned with a transaction
\* already in the log.
C17_Witness ==
    /\ lastCall.op = "spoof_mac_address"
    /\ Len(lastCall.calls) = 1
    /\ lastCall.calls[1].kind = "get"
    /\ lastCall.calls[1].outcome = "raise"
    /\ ~ lastCall.ret.success
    /\ lastCall.ret.message.text = "Unexpected error in spoof_mac_address"
    /\ transactions # <<>>

\* set_mac_address returned False in the call of the step (the branch of
\* lines 162-171): the call recorded a transaction and its second platform
\* handler call is a set that did not raise and did not report success.
SetReportedFailure ==
    /\ lastCall'.txn # NoTxn
    /\ Len(lastCall'.calls) >= 2
    /\ lastCall'.calls[2].kind = "set"
    /\ lastCall'.calls[2].outcome \in {"fail", "half"}

\* Every transaction recorded before the call of the step is as it was.
OthersUntouched == \A u \in 1..Len(txnObj) : txnObj'[u] = txnObj[u]

\* Some callback invoked by the call of the step returned True.
CallbackSucceeded ==
    \E k \in 1..Len(lastCall'.invoked) : lastCall'.invoked[k][3] = "True"

\* C18 as stated: when set_mac_address reports failure, spoof_mac_address
\* returns failure; with auto_rollback_on_error it rolls back exactly the
\* transaction it recorded (that transaction ends rolled_back and no callback
\* is invoked for another one); without it no callback is invoked and the
\* transaction stays pending.
C18_SetFailureRollback ==
    [][SpoofStep /\ SetReportedFailure =>
          /\ ~ lastCall'.ret.success
          /\ OthersUntouched
          /\ IF auto_rollback_on_error
             THEN /\ lastCall'.invoked # <<>>
                  /\ \A k \in 1..Len(lastCall'.invoked) :
                        lastCall'.invoked[k][2] = lastCall'.txn
                  /\ txnObj'[lastCall'.txn].status = "rolled_back"
             ELSE /\ lastCall'.invoked = <<>>
                  /\ txnObj'[lastCall'.txn].status = "pending"]_vars

\* C18 amended: when set_mac_address reports failure, spoof_mac_address
\* returns failure; with auto_rollback_on_error it invokes the rollback
\* callback for the transaction it recorded and for no other, and that
\* transaction ends rolled_back when the callback returned True and pending
\* when it did not; without auto_rollback_on_error no callback is invoked
\* and the transaction stays pending.
C18_SetFailureRollbackAmended ==
    [][SpoofStep /\ SetReportedFailure =>
          /\ ~ lastCall'.ret.success
          /\ OthersUntouched
          /\ IF auto_rollback_on_error
             THEN /\ lastCall'.invoked # <<>>
                  /\ \A k \in 1..Len(lastCall'.invoked) :
                        lastCall'.invoked[k][2] = lastCall'.txn
                  /\ txnObj'[lastCall'.txn].status =
                        IF CallbackSucceeded THEN "rolled_back" ELSE "pending"
             ELSE /\ lastCall'.invoked = <<>>
                  /\ txnObj'[lastCall'.txn].status = "pending"]_vars

\* C18 witness: with auto_rollback_on_error and an earlier committed
\* transaction in the log, set_mac_address reported failure and the rollback
\* callback of the new transaction failed too, leaving it pending.
C18_Witness ==
    /\ auto_rollback_on_error
    /\ lastCall.op = "spoof_mac_address"
    /\ lastCall.txn # NoTxn
    /\ Len(lastCall.calls) >= 2
    /\ lastCall.calls[2].kind = "set"
    /\ lastCall.calls[2].outcome \in {"fail", "half"}
    /\ Len(lastCall.invoked) = 1
    /\ lastCall.invoked[1][2] = lastCall.txn
    /\ lastCall.invoked[1][3] = "False"
    /\ txnObj[lastCall.txn].status = "pending"
    /\ \E u \in Range(transactions) : u # lastCall.txn /\ txnObj[u].status = "committed"

\* In the last call set_mac_address returned True and the value re-read
\* afterwards normalizes to the requested one.
Verified ==
    /\ Len(lastCall.calls) >= 3
    /\ lastCall.calls[2].kind = "set"
    /\ lastCall.calls[2].outcome \in {"ok", "lie"}
    /\ lastCall.calls[3].kind = "get"
    /\ lastCall.calls[3].outcome = "ok"
    /\ NormalizeMac(lastCall.calls[3].ret) = NormalizeMac(lastCall.mac_address)

\* The last call returned at the test of line 146: the snapshot it read
\* normalizes to the requested value, and it recorded nothing.
ShortCircuited ==
    /\ lastCall.txn = NoTxn
    /\ Len(lastCall.calls) = 1
    /\ lastCall.calls[1].outcome = "ok"
    /\ NormalizeMac(lastCall.calls[1].ret) = NormalizeMac(lastCall.mac_address)

\* C19: spoof_mac_address marks a transaction committed only if
\* set_mac_address reported success and the value re-read afterwards
\* normalizes to the requested value (and only the transaction it recorded);
\* it returns success exactly when it short-circuited on a value that already
\* matches or committed the transaction it recorded.
C19_CommitOnlyVerified ==
    lastCall.op = "spoof_mac_address" =>
        /\ \A k \in 1..Len(lastCall.changes) :
              lastCall.changes[k][3] = "committed" =>
                  /\ Verified
                  /\ lastCall.changes[k][1] = lastCall.txn
                  /\ lastCall.changes[k][2] = "pending"
        /\ lastCall.ret.success <=>
              \/ ShortCircuited
              \/ /\ lastCall.txn # NoTxn
                 /\ CommittedByLastCall
                 /\ txnObj[lastCall.txn].status = "committed"

\* C19 witness: a call that committed the transaction it recorded for a
\* request written differently from its normal form, and returned success.
C19_Witness ==
    /\ lastCall.op = "spoof_mac_address"
    /\ lastCall.mac_address = MacALower
    /\ lastCall.ret.success
    /\ lastCall.txn # NoTxn
    /\ Verified
    /\ txnObj[lastCall.txn].status = "committed"
    /\ value[lastCall.interface] = MacA

\* Something raised inside the last spoof_mac_address call: normalize_mac on
\* an address that is not a str (in the validator, or at line 144 after a
\* good snapshot), or a call of the platform handler (the snapshot read, the
\* set, the verifying read, the set of the rollback callback).
RaisedInside ==
    \/ /\ lastCall.mac_address \notin MacTexts
       /\ \/ ~ lastCall.force
          \/ Len(lastCall.calls) = 1 /\ lastCall.calls[1].outcome = "ok"
    \/ \E k \in 1..Len(lastCall.calls) : lastCall.calls[k].outcome = "raise"

\* What spoof_mac_address hands to its caller is a (success, message) pair.
IsPair(ret) == DOMAIN ret = {"success", "message"} /\ ret.success \in BOOLEAN

\* C20: spoof_mac_address never propagates an exception: what it hands to its
\* caller (or to the loop of spoof_multiple_interfaces) is always a
\* (success, message) pair, and when the validator, get_mac_address,
\* set_mac_address or the rollback raised inside the call the pair is
\* (False, message).
C20_NeverPropagates ==
    /\ lastCall.op = "spoof_mac_address" =>
          /\ IsPair(lastCall.ret)
          /\ RaisedInside =>
                /\ ~ lastCall.ret.success
                /\ lastCall.ret.message.text \in
                      {"Unexpected error in spoof_mac_address",
                       "Exception during MAC spoof",
                       "Platform handler failed to set MAC",
                       "MAC verification failed"}
    /\ ~ Idle => \A k \in 1..Len(batch.own) : IsPair(batch.own[k].ret)

\* C20 witness: with auto_rollback_on_error, set_mac_address raised and the
\* set made by the rollback callback raised too; the call returned the
\* (False, message) pair of the inner except branch.
C20_Witness ==
    /\ auto_rollback_on_error
    /\ lastCall.op = "spoof_mac_address"
    /\ Len(lastCall.calls) = 3
    /\ lastCall.calls[2].kind = "set" /\ lastCall.calls[2].outcome = "raise"
    /\ lastCall.calls[3].kind = "set" /\ lastCall.calls[3].outcome = "raise"
    /\ lastCall.invoked = <<<<"rollback_mac_spoof", lastCall.txn, "False">>>>
    /\ lastCall.ret.success = FALSE
    /\ lastCall.ret.message.text = "Exception during MAC spoof"

\* The interfaces a running spoof_multiple_interfaces has called
\* spoof_mac_address for, in the order of the calls.
Processed(own) == [k \in 1..Len(own) |-> own[k].interface]

\* The platform handler calls in calls never start the protocol for an
\* interface outside started: no get_mac_address is made for one, and no
\* set_mac_address writes the address the mapping requests for one.
NotStarted(calls, mappings, started) ==
    \A c \in 1..Len(calls), j \in 1..Len(mappings) :
        (mappings[j][1] \notin started /\ calls[c].interface = mappings[j][1]) =>
            /\ calls[c].kind = "set"
            /\ calls[c].mac_address # normalize_mac[mappings[j][2]]

\* The frame of a running spoof_multiple_interfaces has processed a prefix of
\* the mapping, in its order; with rollback_on_partial_failure only the last
\* processed interface can have failed, and nothing was started for the
\* interfaces after it.
InOrder ==
    ~ Idle =>
        /\ Len(batch.own) <= Len(batch.mappings)
        /\ \A k \in 1..Len(batch.own) : batch.own[k].interface = batch.mappings[k][1]
        /\ batch.pc = "loop" => batch.i = Len(batch.own) + 1
        /\ batch.rollback_on_partial_failure =>
              \A k \in 1..(Len(batch.own) - 1) : batch.own[k].ret.success
        /\ NotStarted(batch.calls, batch.mappings, Range(Processed(batch.own)))

\* A pass of the loop of spoof_multiple_interfaces processes exactly the next
\* interface of the mapping: it adds one result, and every platform handler
\* call it makes is for that interface.
OneAtATime ==
    (batch.pc = "loop" /\ batch'.pc \in {"loop", "abort"} /\ batch' # batch) =>
        /\ Len(batch'.own) = Len(batch.own) + 1
        /\ batch'.own[Len(batch'.own)].interface = batch.mappings[batch.i][1]
        /\ Len(batch'.calls) >= Len(batch.calls)
        /\ \A c \in (Len(batch.calls) + 1)..Len(batch'.calls) :
              batch'.calls[c].interface = batch.mappings[batch.i][1]
        /\ batch'.pc = "abort" <=>
              (batch.rollback_on_partial_failure
                  /\ ~ batch'.own[Len(batch'.own)].ret.success)

\* C21: spoof_multiple_interfaces applies spoof_mac_address to the interfaces
\* strictly one at a time in the order of the mapping, and with
\* rollback_on_partial_failure it never starts the protocol (no snapshot
\* read, no set_mac_address of a requested address) for an interface that
\* comes after the first failing one.
C21_SequentialBatch == [] InOrder /\ [][OneAtATime]_vars

\* C21 witness: a batch of two interfaces with rollback_on_partial_failure
\* returned after its first interface failed at set_mac_address; nothing was
\* read or requested for the second.
C21_Witness ==
    /\ lastCall.op = "spoof_multiple_interfaces"
    /\ lastCall.rollback_on_partial_failure
    /\ lastCall.aborted
    /\ Len(lastCall.mappings) = 2
    /\ Len(lastCall.own) = 1
    /\ lastCall.own[1].interface = lastCall.mappings[1][1]
    /\ lastCall.own[1].txn # NoTxn
    /\ ~ lastCall.own[1].ret.success
    /\ \A c \in 1..Len(lastCall.calls) :
          lastCall.calls[c].interface # lastCall.mappings[2][1]

\* In the call of the step set_mac_address or the verifying get_mac_address
\* raised.
RaisedAfterRecording ==
    /\ Len(lastCall'.calls) >= 2
    /\ lastCall'.calls[2].kind = "set"
    /\ \/ lastCall'.calls[2].outcome = "raise"
       \/ /\ Len(lastCall'.calls) >= 3
          /\ lastCall'.calls[3].kind = "get"
          /\ lastCall'.calls[3].outcome = "raise"

\* The call of the step recorded a new transaction at the end of the log, for
\* the snapshot it read and the address it then passed to set_mac_address.
RecordedBeforeSet ==
    /\ lastCall'.txn = Len(txnObj) + 1
    /\ Len(txnObj') = Len(txnObj) + 1
    /\ transactions' # <<>>
    /\ transactions'[Len(transactions')] = lastCall'.txn
    /\ txnObj'[lastCall'.txn].interface = lastCall'.interface
    /\ txnObj'[lastCall'.txn].original_value = normalize_mac[lastCall'.calls[1].ret]
    /\ txnObj'[lastCall'.txn].new_value = lastCall'.calls[2].mac_address

\* C22: spoof_mac_address records the pending transaction before it calls
\* set_mac_address, so the transaction exists whenever set_mac_address was
\* called; if set_mac_address or the verifying get_mac_address raises, then
\* with auto_rollback_on_error a rollback of exactly that transaction is
\* attempted before the call returns failure, and without it the transaction
\* stays pending.
C22_RecordedBeforeMutation ==
    [][SpoofStep =>
          /\ (Len(lastCall'.calls) >= 2 /\ lastCall'.calls[2].kind = "set")
                => RecordedBeforeSet
          /\ RaisedAfterRecording =>
                /\ ~ lastCall'.ret.success
                /\ lastCall'.ret.message.text = "Exception during MAC spoof"
                /\ OthersUntouched
                /\ IF auto_rollback_on_error
                   THEN /\ Len(lastCall'.invoked) = 1
                        /\ lastCall'.invoked[1][1] = "rollback_mac_spoof"
                        /\ lastCall'.invoked[1][2] = lastCall'.txn
                        /\ txnObj'[lastCall'.txn].status =
                              IF CallbackSucceeded THEN "rolled_back" ELSE "pending"
                   ELSE /\ lastCall'.invoked = <<>>
                        /\ txnObj'[lastCall'.txn].status = "pending"]_vars

\* C22 witness: with auto_rollback_on_error the verifying get_mac_address
\* raised after a set that changed the value; the transaction recorded by the
\* call was rolled back and the value restored.
C22_Witness ==
    /\ auto_rollback_on_error
    /\ lastCall.op = "spoof_mac_address"
    /\ lastCall.txn # NoTxn
    /\ Len(lastCall.calls) = 4
    /\ lastCall.calls[2].kind = "set" /\ lastCall.calls[2].outcome = "ok"
    /\ lastCall.calls[3].kind = "get" /\ lastCall.calls[3].outcome = "raise"
    /\ lastCall.invoked = <<<<"rollback_mac_spoof", lastCall.txn, "True">>>>
    /\ txnObj[lastCall.txn].status = "rolled_back"
    /\ value[lastCall.interface] = txnObj[lastCall.txn].original_value
    /\ ~ lastCall.ret.success

\* The step is the rollback a failing interface triggers in
\* spoof_multiple_interfaces.
AbortStep == batch.pc = "abort" /\ batch'.pc = "return"

\* The callback invocations made by the rollback of the step.
AbortInvoked == SubSeq(batch'.invoked, Len(batch.invoked) + 1, Len(batch'.invoked))

\* C23: the rollback a failing interface triggers in
\* spoof_multiple_interfaces is rollback() of the whole log: it is applied to
\* every transaction that is committed in the log at that moment, whichever
\* call committed it, and to no other; each of them is handed to its rollback
\* callback, is rolled_back when the callback returns True and is counted in
\* the report.
C23_FullLogRollback ==
    [][AbortStep =>
          /\ {AbortInvoked[k][2] : k \in 1..Len(AbortInvoked)} = Range(Committed)
          /\ batch'.rolled = Committed
          /\ \A t \in 1..Len(txnObj) :
                IF t \in Range(Committed)
                THEN txnObj'[t].status =
                        IF \E k \in 1..Len(AbortInvoked) :
                              AbortInvoked[k][2] = t /\ AbortInvoked[k][3] = "True"
                        THEN "rolled_back" ELSE "committed"
                ELSE txnObj'[t] = txnObj[t]
          /\ batch'.rollback_result.rolled_back_count
                + batch'.rollback_result.failed_count = Len(Committed)]_vars

\* C23 witness: a batch stopped at its only interface and its rollback rolled
\* back a transaction that an earlier spoof_mac_address call had committed on
\* the other interface.
C23_Witness ==
    /\ BatchAborted
    /\ Len(lastCall.own) = 1
    /\ \E t \in Range(lastCall.rolled) :
          /\ t # lastCall.own[1].txn
          /\ txnObj[t].interface # lastCall.own[1].interface
          /\ txnObj[t].status = "rolled_back"
          /\ value[txnObj[t].interface] = txnObj[t].original_value
          /\ \E k \in 1..Len(lastCall.invoked) :
                lastCall.invoked[k][2] = t /\ lastCall.invoked[k][3] = "True"

\* C24: after spoof_multiple_interfaces with rollback_on_partial_failure has
\* stopped at a failing interface, if every rollback callback invoked during
\* the call returned True, every interface named in the mapping has the
\* address it had when the call started, whatever auto_rollback_on_error is
\* and whatever earlier calls committed.
C24_BatchRestoresTargets ==
    (/\ BatchAborted
     /\ \A k \in 1..Len(lastCall.invoked) : lastCall.invoked[k][3] = "True")
    => \A j \in 1..Len(lastCall.mappings) :
          value[lastCall.mappings[j][1]] = lastCall.before[lastCall.mappings[j][1]]

\* The callbacks registered for the action of transaction t, in registration
\* order.
CallbacksFor(t) ==
    IF txnObj[t].action \in DOMAIN rollback_callbacks
    THEN rollback_callbacks[txnObj[t].action]
    ELSE <<>>

\* The callback invocations the last call made for transaction t, in order.
InvokedFor(t) == SelectSeq(lastCall.invoked, LAMBDA e : e[2] = t)

\* C25: rollback invokes the callbacks registered for a transaction's action
\* in registration order and stops at the first one that returns True: the
\* callbacks registered after it are not invoked for the transaction, and the
\* transaction is marked rolled_back only if some callback returned True.
C25_FirstSuccessWins ==
    RollbackReturned =>
        \A t \in Range(lastCall.todo) :
            LET cbs == CallbacksFor(t)
                inv == InvokedFor(t)
                won == inv # <<>> /\ inv[Len(inv)][3] = "True"
            IN  IF lastCall.entry[t] = "rolled_back"
                THEN inv = <<>>
                ELSE /\ Len(inv) <= Len(cbs)
                     /\ \A i \in 1..Len(inv) : inv[i][1] = cbs[i]
                     /\ \A i \in 1..(Len(inv) - 1) : inv[i][3] # "True"
                     /\ Len(inv) < Len(cbs) => won
                     /\ txnObj[t].status = "rolled_back" <=> won

\* C25 witness: rollback took a transaction whose action has two callbacks,
\* the first of which returned True; the second was not invoked and the
\* transaction is rolled_back.
C25_Witness ==
    /\ RollbackReturned
    /\ \E t \in Range(lastCall.todo) :
          /\ Len(CallbacksFor(t)) = 2
          /\ CallbacksFor(t)[1] = "cb_true"
          /\ InvokedFor(t) = <<<<"cb_true", t, "True">>>>
          /\ lastCall.entry[t] = "committed"
          /\ txnObj[t].status = "rolled_back"

\* The step is a rollback() call without argument.
RollbackAllStep ==
    /\ lastCall'.op = "rollback"
    /\ lastCall'.txn = NoTxn
    /\ lastCall' # lastCall

\* C26: rollback() without argument touches only the transactions of the log
\* that are committed when the call begins: a transaction that is pending or
\* already rolled_back keeps its status, gets no callback invocation and is
\* counted neither in rolled_back_count nor in failed_count, and the log keeps
\* its length and order.
C26_OnlyCommittedTouched ==
    [][RollbackAllStep =>
          /\ transactions' = transactions
          /\ Len(txnObj') = Len(txnObj)
          /\ \A t \in 1..Len(txnObj) :
                txnObj[t].status # "committed" =>
                    /\ txnObj'[t] = txnObj[t]
                    /\ \A k \in 1..Len(lastCall'.invoked) : lastCall'.invoked[k][2] # t
          /\ lastCall'.results.rolled_back_count + lastCall'.results.failed_count
                = Len(Committed)
          /\ \A k \in 1..Len(lastCall'.todo) :
                txnObj[lastCall'.todo[k]].status = "committed"]_vars

\* C26 witness: rollback() returned on a log that held a pending and a
\* committed transaction; only the committed one was taken, and it is
\* rolled_back.
C26_Witness ==
    /\ RolledBackAll
    /\ Len(transactions) = 2
    /\ Len(lastCall.todo) = 1
    /\ \E p \in Range(transactions) :
          /\ lastCall.entry[p] = "pending"
          /\ txnObj[p].status = "pending"
    /\ txnObj[lastCall.todo[1]].status = "rolled_back"
    /\ lastCall.results.rolled_back_count = 1
    /\ lastCall.results.failed_count = 0

\* The call of the step passed validation (or was forced), read a snapshot
\* and found it different from the address requested, so it went past the
\* test of line 146.
WentPastShortCircuit ==
    /\ lastCall'.mac_address \in MacTexts
    /\ lastCall'.force \/ validate[lastCall'.mac_address].is_valid
    /\ Len(lastCall'.calls) >= 1
    /\ lastCall'.calls[1].outcome = "ok"
    /\ normalize_mac[lastCall'.calls[1].ret] # normalize_mac[lastCall'.mac_address]

\* The log after add_transaction has appended reference ref to log.
Appended(log, ref) ==
    Append(IF Len(log) >= max_transactions THEN Tail(log) ELSE log, ref)

\* C27: every spoof_mac_address call that passes validation and snapshot and
\* is not short-circuited appends exactly one transaction to the log, whether
\* it ends committed, rolled_back or pending, and every other call appends
\* none; as long as no more transactions were recorded than the log holds,
\* the log lists all of them in the order of the calls.
C27_OneTransactionPerAttempt ==
    /\ [](Len(txnObj) <= max_transactions =>
             transactions = [k \in 1..Len(txnObj) |-> k])
    /\ [][SpoofStep =>
             IF WentPastShortCircuit
             THEN /\ Len(txnObj') = Len(txnObj) + 1
                  /\ lastCall'.txn = Len(txnObj) + 1
                  /\ transactions' = Appended(transactions, lastCall'.txn)
                  /\ txnObj'[lastCall'.txn].status \in
                        {"committed", "rolled_back", "pending"}
             ELSE /\ txnObj' = txnObj
                  /\ transactions' = transactions
                  /\ lastCall'.txn = NoTxn]_vars

\* C27 witness: the second recording call returned with its transaction
\* pending; the log holds both transactions in call order, the first one
\* committed.
C27_Witness ==
    /\ lastCall.op = "spoof_mac_address"
    /\ lastCall.txn = 2
    /\ transactions = <<1, 2>>
    /\ txnObj[1].status = "committed"
    /\ txnObj[2].status = "pending"
    /\ ~ lastCall.ret.success

\* C28: rollback() without argument attempts every transaction of the log
\* that was committed when the call began, also after an earlier attempt of
\* the same call has failed: each of them is either rolled_back or reported
\* as failed, every one whose action has callbacks gets a callback
\* invocation, and rolled_back_count + failed_count is the number of
\* transactions that were committed when the call began.
C28_ContinuesAfterFailure ==
    RolledBackAll =>
        /\ lastCall.todo =
              SelectSeq(transactions, LAMBDA t : lastCall.entry[t] = "committed")
        /\ \A t \in Range(lastCall.todo) :
              /\ CallbacksFor(t) # <<>> => InvokedFor(t) # <<>>
              /\ txnObj[t].status = "rolled_back" <=> ~ RollbackFailedFor(t)
        /\ lastCall.results.rolled_back_count =
              Cardinality({t \in Range(lastCall.todo) : txnObj[t].status = "rolled_back"})
        /\ lastCall.results.failed_count =
              Cardinality({t \in Range(lastCall.todo) : RollbackFailedFor(t)})
        /\ lastCall.results.rolled_back_count + lastCall.results.failed_count
              = Len(lastCall.todo)

\* C28 witness: rollback() took two committed transactions; the later one,
\* tried first, failed, and the earlier one was still rolled back.
C28_Witness ==
    /\ RolledBackAll
    /\ Len(lastCall.todo) = 2
    /\ RollbackFailedFor(lastCall.todo[2])
    /\ txnObj[lastCall.todo[2]].status = "committed"
    /\ InvokedFor(lastCall.todo[1]) # <<>>
    /\ txnObj[lastCall.todo[1]].status = "rolled_back"
    /\ lastCall.results.rolled_back_count = 1
    /\ lastCall.results.failed_count = 1
    /\ ~ lastCall.results.success

\* The transactions on interface i that the last rollback_all_changes call
\* selected (the committed ones of the log on entry), oldest first.
StackOf(i) == SelectSeq(lastCall.todo, LAMBDA t : txnObj[t].interface = i)

\* Every rollback of the last call succeeded: each set_mac_address made by
\* the rollback callback did what was asked and returned True.
EveryRollbackSucceeded ==
    \A k \in 1..Len(lastCall.calls) : lastCall.calls[k].outcome = "ok"

\* C29: if an interface has several committed transactions in the log and
\* every rollback succeeds, then after rollback_all_changes() the interface
\* has the original_value of its earliest committed transaction.
C29_StackedRestoresEarliest ==
    (lastCall.op = "rollback_all_changes" /\ EveryRollbackSucceeded) =>
        \A i \in Interfaces :
            Len(StackOf(i)) >= 2 =>
                /\ value[i] = txnObj[StackOf(i)[1]].original_value
                /\ \A k \in 1..Len(StackOf(i)) :
                      txnObj[StackOf(i)[k]].status = "rolled_back"

\* C29 witness: rollback_all_changes() returned after rolling back two
\* committed changes stacked on one interface, which has the original value
\* of the earlier change again and not that of the later one.
C29_Witness ==
    /\ lastCall.op = "rollback_all_changes"
    /\ EveryRollbackSucceeded
    /\ \E i \in Interfaces :
          /\ Len(StackOf(i)) = 2
          /\ txnObj[StackOf(i)[2]].original_value = txnObj[StackOf(i)[1]].new_value
          /\ txnObj[StackOf(i)[2]].original_value # txnObj[StackOf(i)[1]].original_value
          /\ value[i] = normalize_mac[InitialMac[i]]
          /\ value[i] # txnObj[StackOf(i)[2]].original_value
          /\ lastCall.results.rolled_back_count = 2

\* The committed transactions that the log no longer holds: evicted by
\* add_transaction at capacity, or removed by clear_history.
Dropped ==
    {t \in 1..Len(txnObj) :
        txnObj[t].status = "committed" /\ t \notin Range(transactions)}

\* C30: a committed transaction that the capacity bound has evicted from the
\* log, or clear_history has removed, is never rolled back by a later
\* rollback_all_changes(): no callback is invoked for it, it stays committed,
\* the report counts only the committed transactions the log still holds, and
\* an interface without such a transaction keeps the address it has.
C30_DroppedNeverRolledBack ==
    [][lastCall'.op = "rollback_all_changes" =>
          /\ \A t \in Dropped :
                /\ txnObj'[t] = txnObj[t]
                /\ \A k \in 1..Len(lastCall'.invoked) : lastCall'.invoked[k][2] # t
                /\ t \notin Range(lastCall'.todo)
          /\ lastCall'.results.rolled_back_count + lastCall'.results.failed_count
                = Len(Committed)
          /\ \A i \in Interfaces :
                (\A u \in Range(Committed) : txnObj[u].interface # i)
                    => value'[i] = value[i]]_vars

\* C30 witness: rollback_all_changes() returned success after rolling back
\* the one transaction of the log, while a committed transaction that the log
\* no longer holds got no callback and its interface still has the new value.
C30_Witness ==
    /\ lastCall.op = "rollback_all_changes"
    /\ lastCall.results.success
    /\ lastCall.results.rolled_back_count = 1
    /\ lastCall.results.failed_count = 0
    /\ \E t \in Dropped :
          /\ value[txnObj[t].interface] = txnObj[t].new_value
          /\ \A k \in 1..Len(lastCall.invoked) : lastCall.invoked[k][2] # t

\* The report rollback returns: the four keys of the results dict.
IsReport(results) ==
    /\ DOMAIN results = {"success", "rolled_back_count", "failed_count",
                         "failed_transactions"}
    /\ results.success \in BOOLEAN

\* C31: a rollback callback that raises is treated as one that failed: the
\* callback registered next for the same action is still tried, the
\* transaction is counted as failed only if no callback returns True, and
\* rollback itself returns its report and never raises.
C31_RaisingCallbackIsFailure ==
    RollbackReturned =>
        /\ IsReport(lastCall.results)
        /\ \A t \in Range(lastCall.todo) :
              LET cbs == CallbacksFor(t)
                  inv == InvokedFor(t)
              IN  /\ \A i \in 1..Len(inv) :
                        (inv[i][3] = "raise" /\ i < Len(cbs)) =>
                            /\ Len(inv) > i
                            /\ inv[i + 1][1] = cbs[i + 1]
                  /\ (\E i \in 1..Len(inv) : inv[i][3] = "True") =>
                        /\ txnObj[t].status = "rolled_back"
                        /\ \A k \in 1..Len(lastCall.results.failed_transactions) :
                              lastCall.results.failed_transactions[k] # FailedEntry(t)
        /\ lastCall.results.failed_count =
              Cardinality({t \in Range(lastCall.todo) : RollbackFailedFor(t)})

\* C31 witness: the first callback of a transaction's action raised, the
\* second was tried and returned True; the transaction is rolled_back and the
\* report says success.
C31_Witness ==
    /\ RollbackReturned
    /\ lastCall.results.success
    /\ lastCall.results.failed_count = 0
    /\ \E t \in Range(lastCall.todo) :
          /\ InvokedFor(t) = <<<<"cb_raise", t, "raise">>, <<"cb_true", t, "True">>>>
          /\ txnObj[t].status = "rolled_back"

\* The transactions recorded by the spoof_mac_address calls of a batch.
OwnTxns(own) == {own[k].txn : k \in 1..Len(own)} \ {NoTxn}

\* C32: with rollback_on_partial_failure disabled, spoof_multiple_interfaces
\* processes every interface of the mapping whatever failed before, triggers
\* no rollback of the log (only a call's own auto-rollback touches a
\* transaction), and returns for each interface exactly the pair its own
\* spoof_mac_address call returned.
C32_NoRollbackBatch ==
    /\ (~ Idle /\ ~ batch.rollback_on_partial_failure) =>
          /\ batch.pc = "loop"
          /\ batch.rollback_result = EmptyResults
    /\ (/\ lastCall.op = "spoof_multiple_interfaces"
        /\ ~ lastCall.rollback_on_partial_failure) =>
          /\ ~ lastCall.aborted
          /\ Len(lastCall.own) = Len(lastCall.mappings)
          /\ lastCall.ret =
                [k \in 1..Len(lastCall.mappings) |->
                    [key |-> lastCall.mappings[k][1], val |-> lastCall.own[k].ret]]
          /\ \A k \in 1..Len(lastCall.own) :
                lastCall.own[k].interface = lastCall.mappings[k][1]
          /\ lastCall.rolled = <<>>
          /\ lastCall.rollback_result = EmptyResults
          /\ \A k \in 1..Len(lastCall.invoked) :
                lastCall.invoked[k][2] \in OwnTxns(lastCall.own)
          /\ \A k \in 1..Len(lastCall.changes) :
                lastCall.changes[k][1] \in OwnTxns(lastCall.own)

\* C32 witness: a batch of two interfaces without rollback_on_partial_failure
\* returned; the first interface failed, the second was still processed and
\* committed, and each has its own result.
C32_Witness ==
    /\ lastCall.op = "spoof_multiple_interfaces"
    /\ ~ lastCall.rollback_on_partial_failure
    /\ Len(lastCall.mappings) = 2
    /\ Len(lastCall.own) = 2
    /\ ~ lastCall.own[1].ret.success
    /\ lastCall.own[2].ret.success
    /\ lastCall.own[2].txn # NoTxn
    /\ txnObj[lastCall.own[2].txn].status = "committed"
    /\ DictGet(lastCall.ret, lastCall.mappings[1][1]) = lastCall.own[1].ret
    /\ DictGet(lastCall.ret, lastCall.mappings[2][1]) = lastCall.own[2].ret


\* ------------------------------------------------------------------- C33
\* A scheduler loop makes a step that invokes the callback for task n.
LoopInvokes(n) == loop_runs'[n] = loop_runs[n] + 1

\* The task has a limit of runs and its run_count has reached it.
Exhausted(task) == task.max_runs # NoLimit /\ task.run_count >= task.max_runs

\* C33: a task created with max_runs = n is executed at most n times by the
\* scheduler loop: once its run_count has reached max_runs, no scheduler loop
\* invokes the callback for it again.
C33_MaxRunsBounded ==
    [][\A n \in TaskNames :
          LoopInvokes(n) => ~ Exhausted(tasks[GetTask(n)])]_vars


\* ------------------------------------------------------------------- C34
\* C34: a scheduler loop executes an enabled task of frequency ONCE at most
\* once, however many times it wakes, and never executes a disabled task: a
\* loop invokes the callback only for a task that is enabled, and for a ONCE
\* task only if no loop has invoked it before.
C34_OnceAtMostOnce ==
    [][\A n \in TaskNames :
          LoopInvokes(n) =>
             /\ tasks[GetTask(n)].enabled
             /\ tasks[GetTask(n)].frequency = "once" => loop_runs[n] = 0]_vars


\* ------------------------------------------------------------------- C35
\* A step in which a run_task call returns, made by the caller or by a loop.
RunTaskStep == lastCall' # lastCall /\ lastCall'.op = "run_task"

\* C35: run_task on an existing task adds exactly one to run_count and sets
\* last_run if and only if the callback returns without raising, and then
\* returns True; when the callback raises, run_task returns False and leaves
\* run_count, last_run and next_run of the task as they were.
C35_RunTaskBookkeeping ==
    [][RunTaskStep =>
          LET k == GetTask(lastCall'.name)
          IN  IF lastCall'.callback = "return"
              THEN /\ lastCall'.ret = TRUE
                   /\ tasks'[k].run_count = tasks[k].run_count + 1
                   /\ tasks'[k].last_run = now
                   /\ tasks'[k].last_run # NoTime
              ELSE /\ lastCall'.ret = FALSE
                   /\ tasks'[k].run_count = tasks[k].run_count
                   /\ tasks'[k].last_run = tasks[k].last_run
                   /\ tasks'[k].next_run = tasks[k].next_run]_vars

\* C35 witness: run_task has returned False for a task whose callback raised,
\* after an earlier run of the task that was recorded at another hour.
C35_Witness ==
    /\ lastCall.op = "run_task"
    /\ lastCall.callback = "raise"
    /\ lastCall.ret = FALSE
    /\ tasks[GetTask(lastCall.name)].run_count = 1
    /\ tasks[GetTask(lastCall.name)].last_run = 0
    /\ now = 1


\* ------------------------------------------------------------------- C36
\* One pass of a loop over its due tasks is sequential: the tasks it has run
\* are the first of the due tasks in their order, it is inside the callback
\* of at most one of them, and when the pass is over it has run them all.
SequentialPass(th) ==
    LET t == threads[th]
    IN  /\ Cardinality(t.active) <= 1
        /\ (t.pc = "callback") = (t.active # {})
        /\ Len(t.ran) <= Len(t.due_tasks)
        /\ \A k \in 1..Len(t.ran) : t.ran[k] = t.due_tasks[k]
        /\ t.active \subseteq {t.ran[k] : k \in {Len(t.ran)} \cap DOMAIN t.ran}
        /\ t.pc \in {"while", "done"} => t.ran = t.due_tasks

\* A loop leaves a callback, by a return or by a raise, with due tasks left:
\* it goes on with the for loop over the same due tasks.
GoesOn(th) ==
    /\ threads[th].pc = "callback"
    /\ threads'[th].pc # "callback"
    /\ Len(threads[th].ran) < Len(threads[th].due_tasks)
    => /\ threads'[th].pc = "for"
       /\ threads'[th].due_tasks = threads[th].due_tasks
       /\ threads'[th].ran = threads[th].ran

\* C36: within one pass of the scheduler loop the due tasks are run one after
\* another, never two at a time, and a task whose invocation fails does not
\* keep the remaining due tasks of the pass from being run.
C36_SequentialTick ==
    /\ [](\A th \in 1..Len(threads) : SequentialPass(th))
    /\ [][\A th \in 1..Len(threads) : GoesOn(th)]_vars

\* C36 witness: a loop found two tasks due, the callback of the first raised,
\* and the loop is inside the callback of the second.
C36_Witness ==
    \E th \in 1..Len(threads) :
       /\ Len(threads[th].due_tasks) = 2
       /\ threads[th].ran = threads[th].due_tasks
       /\ threads[th].pc = "callback"
       /\ lastCall.op = "run_task"
       /\ lastCall.name = threads[th].due_tasks[1]
       /\ lastCall.callback = "raise"
       /\ loop_runs[threads[th].due_tasks[1]] = 1
       /\ tasks[GetTask(threads[th].due_tasks[1])].run_count = 0


\* ------------------------------------------------------------------- C37
\* A loop is active when its thread has not ended and has found running true
\* since the newest thread was spawned: it goes on running tasks and sleeping
\* next to that thread.
Active(th) == threads[th].pc # "done" /\ threads[th].seen = Len(threads)

\* C37: at most one scheduler loop is active at any time: start() while
\* running spawns no thread, and after stop() and start() the loop of the
\* earlier start does not go on next to the new one.
C37_AtMostOneLoop ==
    /\ [](Cardinality({th \in 1..Len(threads) : Active(th)}) <= 1)
    /\ [][Len(threads') > Len(threads) => ~ running]_vars


\* ------------------------------------------------------------------- C38
\* The places of the entries of an interface that are flagged is_original,
\* and of its spoof entries.
Originals(es, i) == {k \in 1..Len(es) : es[k].interface = i /\ es[k].is_original}
Spoofs(es, i) == {k \in 1..Len(es) : es[k].interface = i /\ es[k].action = "spoof"}

\* Every interface with a spoof entry has exactly one entry flagged
\* is_original, and it precedes all the spoof entries of the interface.
OneOriginalFirst ==
    \A i \in Interfaces :
       Spoofs(entries, i) # {} =>
          /\ Cardinality(Originals(entries, i)) = 1
          /\ \A k \in Originals(entries, i), j \in Spoofs(entries, i) : k < j

\* A record_spoof step: the first one for its interface records the
\* original_mac it was passed, and a later one leaves the original entry of
\* the interface, its place and its address, as it was.
KeepsFirstOriginal ==
    entries' # entries =>
       LET i == lastCall'.interface
       IN  IF Spoofs(entries, i) = {}
           THEN \A k \in Originals(entries', i) :
                   entries'[k].mac_address = lastCall'.original_mac
           ELSE /\ Originals(entries', i) = Originals(entries, i)
                /\ \A k \in Originals(entries, i) :
                      entries'[k].mac_address = entries[k].mac_address

\* C38: after any sequence of record_spoof calls on an empty history, every
\* interface that was spoofed has exactly one entry flagged is_original; it
\* holds the original_mac of the first record_spoof for the interface and
\* precedes all the spoof entries of the interface.
C38_OneOriginalPerInterface ==
    /\ [] OneOriginalFirst
    /\ [][KeepsFirstOriginal]_vars

\* C38 witness: eth0 was spoofed twice, the second time with another
\* original_mac, eth1 once in between; each has its one original entry.
C38_Witness ==
    /\ Len(entries) = 5
    /\ Originals(entries, "eth0") = {1}
    /\ Spoofs(entries, "eth0") = {2, 5}
    /\ Originals(entries, "eth1") = {3}
    /\ entries[1].mac_address = MacE0
    /\ lastCall.op = "record_spoof"
    /\ lastCall.interface = "eth0"
    /\ lastCall.original_mac = MacA

====
